---- MODULE Spec2Model ----
(***************************************************************************)
(* Model of the Agent Message Bus (src/src/agents/message_bus.py):         *)
(* class AgentMessageBus and the connection handler                         *)
(* handle_agent_websocket.                                                  *)
(*                                                                          *)
(* Every coroutine is a task.  A task runs without interruption from one    *)
(* await that can suspend (websocket.accept, send_json, receive_json) to    *)
(* the next: asyncio is cooperative, so the code between two awaits is      *)
(* atomic.  Program positions that are not awaits are "internal": while a   *)
(* task is at an internal position no other task takes a step.              *)
(*                                                                          *)
(* Two specifications share the bus:                                        *)
(*   Spec     connection handlers (handle_agent_websocket), one task per    *)
(*            connection, interleaved at their awaits;                      *)
(*   ApiSpec  one caller that invokes the public methods of the bus         *)
(*            directly, one call at a time, with arbitrary arguments.       *)
(*                                                                          *)
(* Python dicts are functions with a changing domain.  The insertion order  *)
(* of dict keys is not modelled: a list built from a dict is the sequence   *)
(* of its selected keys in one fixed order (SetToSeq).  The timestamp of    *)
(* an envelope (datetime.utcnow) is left out of the envelopes.  None and    *)
(* the empty list are both <<>>: the code only tests `if capabilities` and  *)
(* `capabilities or []`.                                                    *)
(***************************************************************************)
EXTENDS Integers, Sequences, FiniteSets, Bags, TLC

\* ------------------------------------------------------------------ bounds
NConns == 2
NIds == 2
NUserTopics == 0
NCaps == 1
NMessages == 1
MaxTopicsPerCall == 2
MaxTopicsPerMsg == 1

\* ------------------------------------------------------------------ values
IdNames == <<"a1", "a2", "a3", "a4">>
TopicNames == <<"t1", "t2", "t3">>
CapNames == <<"c1", "c2", "c3", "c4">>

Min(a, b) == IF a < b THEN a ELSE b

AgentIds == {IdNames[i] : i \in 1..Min(NIds, Len(IdNames))}
\* tags an agent may declare, and tags a collaboration request may ask for
\* (one more: a tag that nobody declares)
Capabilities == {CapNames[i] : i \in 1..Min(NCaps, Len(CapNames))}
RequestCaps == {CapNames[i] : i \in 1..Min(NCaps + 1, Len(CapNames))}
LIFECYCLE == "agent_lifecycle"
COLLAB == "collaboration_request"
SYSTEM == "system"
Topics == {LIFECYCLE, COLLAB} \cup {TopicNames[i] : i \in 1..Min(NUserTopics, Len(TopicNames))}
Messages == {[msg |-> i] : i \in 1..NMessages}
Contexts == {[ctx |-> 1]}
Conns == 1..NConns
Api == 0
Tasks == {Api} \cup Conns

\* capability lists a caller may declare: none, one tag, or two different tags
CapLists == {<<>>} \cup {<<c>> : c \in Capabilities}
              \cup {s \in [1..2 -> Capabilities] : s[1] # s[2]}
\* topic lists of a subscribe / unsubscribe call, and of a control message
TopicLists == UNION {[1..n -> Topics] : n \in 0..MaxTopicsPerCall}
MsgTopicLists == UNION {[1..n -> Topics] : n \in 0..MaxTopicsPerMsg}
\* an id that publishes, requests and sends but never registers
OUTSIDER == "a0"
CallerIds == AgentIds \cup {OUTSIDER}
\* the empty string, passed as an agent id
EMPTY == ""
\* the actions the handler dispatches on
KnownActions ==
  {"subscribe", "unsubscribe", "publish", "request_collaboration",
   "direct_message", "get_agents"}
\* data.get('action') of a control message that is none of them: <<name>> for
\* an action called name, <<>> for a message without an action (None)
OtherActions == {<<>>, <<"ping">>}

Range(s) == {s[i] : i \in DOMAIN s}

\* one fixed enumeration of a finite set as a sequence without repetition
RECURSIVE SetToSeq(_)
SetToSeq(S) == IF S = {} THEN <<>>
               ELSE LET x == CHOOSE y \in S : TRUE
                    IN <<x>> \o SetToSeq(S \ {x})

\* ------------------------------------------------------------------ dicts
DictSet(d, k, v) == [x \in DOMAIN d \cup {k} |-> IF x = k THEN v ELSE d[x]]
DictDel(d, k) == [x \in DOMAIN d \ {k} |-> d[x]]
EmptyDict == [x \in {} |-> 0]

VARIABLES
  agents,              \* _agents: agent id -> websocket
  subscriptions,       \* _subscriptions: topic -> set of agent ids
  agent_capabilities,  \* _agent_capabilities: agent id -> capability list
  open,                \* per websocket: the peer has not closed it
  accepted,            \* per websocket: accept() has been called on it
  pc,                  \* per task: its position
  call,                \* per task: the bus call / control message in progress
  message_payload,     \* per task: the envelope of the publish in progress
  iter,                \* per task: the set iterator of the publish loop (and,
                       \* history, `stayed`: the agents registered and
                       \* subscribed to its topic ever since the publish began)
  target,              \* per task: recipient of the send being awaited
  result,              \* per task: return value / raised error of the call
  sent,                \* per task: bag of send attempts made by the call in progress
  fails,               \* per task: websockets whose send raised during that call
  acks,                \* per handler: acknowledgements written for the message in progress
  agent_id,            \* per handler: the agent_id argument of handle_agent_websocket
  lastSub,             \* history: id -> topics whose latest subscribe or
                       \* unsubscribe call for id, since id was last
                       \* unregistered, was a subscribe
  departed,            \* history: id -> topics id was subscribed to when it was
                       \* last unregistered and on which it has not, since
                       \* then, been registered and subscribed at once
  log                  \* history, kept for the tasks in `on`: the calls a task
                       \* made, its sends that completed or raised and the
                       \* acknowledgements it wrote, in the order they happened

bus == <<agents, subscriptions, agent_capabilities>>
vars == <<agents, subscriptions, agent_capabilities, open, accepted, pc, call,
          message_payload, iter, target, result, sent, fails, acks, agent_id,
          lastSub, departed, log>>

NoCall == [op |-> "none"]
NoIter == [topic |-> "", used |-> 0, visited |-> {}, dirty |-> FALSE, stayed |-> {}]
NoEnv == [none |-> TRUE]
NoTarget == [id |-> "", ws |-> 0]
NoResult == [status |-> "none"]
NoLog == [on |-> {}, events |-> <<>>]

\* AgentMessageBus.__init__ and the state before any handler runs
InitState ==
  /\ agents = EmptyDict
  /\ subscriptions = EmptyDict
  /\ agent_capabilities = EmptyDict
  /\ open = [c \in Conns |-> TRUE]
  /\ accepted = [c \in Conns |-> FALSE]
  /\ pc = [t \in Tasks |-> "idle"]
  /\ call = [t \in Tasks |-> NoCall]
  /\ message_payload = [t \in Tasks |-> NoEnv]
  /\ iter = [t \in Tasks |-> NoIter]
  /\ target = [t \in Tasks |-> NoTarget]
  /\ result = [t \in Tasks |-> NoResult]
  /\ sent = [t \in Tasks |-> EmptyBag]
  /\ fails = [t \in Tasks |-> {}]
  /\ acks = [c \in Conns |-> <<>>]
  /\ agent_id = [c \in Conns |-> ""]
  /\ lastSub = [a \in AgentIds \cup {EMPTY} |-> {}]
  /\ departed = [a \in AgentIds \cup {EMPTY} |-> {}]

Init == InitState /\ log = NoLog

\* ------------------------------------------------------------------ bus data
NoneVal == [none |-> TRUE]
Return(v) == [kind |-> "return", value |-> v]
Raise(e) == [kind |-> "raise", error |-> e]

\* mutant: the subscriber set is replaced, not extended
RECURSIVE Subscribe_Overwrite(_, _, _)
Subscribe_Overwrite(subs, id, topics) ==
  IF topics = <<>> THEN subs
  ELSE Subscribe_Overwrite(DictSet(subs, Head(topics), {id}), id, Tail(topics))

\* subscribe: for topic in topics: create the set if missing, add agent_id
RECURSIVE Subscribe(_, _, _)
Subscribe(subs, id, topics) ==
  IF topics = <<>> THEN subs
  ELSE LET T == Head(topics)
           s1 == IF T \notin DOMAIN subs THEN DictSet(subs, T, {}) ELSE subs
       IN Subscribe(DictSet(s1, T, s1[T] \cup {id}), id, Tail(topics))

\* mutant: a topic whose subscriber set becomes empty is deleted
RECURSIVE Unsubscribe_DropTopic(_, _, _)
Unsubscribe_DropTopic(subs, id, topics) ==
  IF topics = <<>> THEN subs
  ELSE LET T == Head(topics)
       IN Unsubscribe_DropTopic(
            IF T \in DOMAIN subs
            THEN IF subs[T] \ {id} = {} THEN DictDel(subs, T)
                 ELSE DictSet(subs, T, subs[T] \ {id})
            ELSE subs,
            id, Tail(topics))

\* unsubscribe: for topic in topics: if the topic is known, discard agent_id
RECURSIVE Unsubscribe(_, _, _)
Unsubscribe(subs, id, topics) ==
  IF topics = <<>> THEN subs
  ELSE LET T == Head(topics)
       IN Unsubscribe(IF T \in DOMAIN subs THEN DictSet(subs, T, subs[T] \ {id}) ELSE subs,
                      id, Tail(topics))

\* mutant: the subscriber sets are left as they are
UnregisterSubscriptions_Skip(subs, id) == subs

\* unregister_agent: discard the id from every subscriber set
UnregisterSubscriptions(subs, id) == [T \in DOMAIN subs |-> subs[T] \ {id}]

\* mutant: unregister_agent leaves the capabilities in place
UnregisterCapabilities_Keep(caps, id) == caps

\* unregister_agent: the removals from the registry and the capability map
UnregisterAgents(ag, id) == IF id \in DOMAIN ag THEN DictDel(ag, id) ELSE ag
UnregisterCapabilities(caps, id) == IF id \in DOMAIN caps THEN DictDel(caps, id) ELSE caps

\* mutant: an id that is already registered keeps its first websocket
RegisterAgents_KeepFirst(ag, id, ws) == IF id \in DOMAIN ag THEN ag ELSE DictSet(ag, id, ws)

\* mutant: the capabilities are stored even when none are given
RegisterCapabilities_StoreEmpty(caps, id, capabilities) == DictSet(caps, id, capabilities)

\* register_agent, the two stores
RegisterAgents(ag, id, ws) == DictSet(ag, id, ws)
RegisterCapabilities(caps, id, capabilities) ==
  IF capabilities # <<>> THEN DictSet(caps, id, capabilities) ELSE caps

\* mutant: the sender is not excluded
ShouldSend_NoSenderTest(ag, a, sender_id) == a \in DOMAIN ag

\* publish: the test that guards each send
ShouldSend(ag, a, sender_id) == a # sender_id /\ a \in DOMAIN ag

\* mutant: the envelope names 'system' as the sender
PubEnvelope_WrongSender(topic, sender_id, message) ==
  [topic |-> topic, sender |-> SYSTEM, data |-> message]

\* publish: message_payload (without the timestamp)
PubEnvelope(topic, sender_id, message) ==
  [topic |-> topic, sender |-> sender_id, data |-> message]

\* mutant: the envelope is built like a publish envelope
DirectEnvelope_AsPublish(sender_id, message) ==
  [topic |-> "direct_message", sender |-> sender_id, data |-> message]

\* direct_message: message_payload (without the timestamp)
DirectEnvelope(sender_id, message) ==
  [type |-> "direct_message", sender |-> sender_id, data |-> message]

\* mutant: the requester is not excluded
CapableAgents_WithRequester(caps, capability_needed, requester_id) ==
  SetToSeq({a \in DOMAIN caps : capability_needed \in Range(caps[a])})

\* request_collaboration: capable_agents
CapableAgents(caps, capability_needed, requester_id) ==
  SetToSeq({a \in DOMAIN caps :
              capability_needed \in Range(caps[a]) /\ a # requester_id})

\* request_collaboration: the two summaries it returns
NoCapableSummary(capability_needed) ==
  [status |-> "no_capable_agents", capability |-> capability_needed,
   available_agents |-> <<>>]
BroadcastSummary(capability_needed, capable_agents) ==
  [status |-> "broadcast_sent", capability |-> capability_needed,
   target_agents |-> capable_agents, count |-> Len(capable_agents)]

\* request_collaboration: the payload it publishes on collaboration_request
CollabPayload(capability_needed, context, requester_id, capable_agents) ==
  [capability |-> capability_needed, context |-> context,
   requester |-> requester_id, target_agents |-> capable_agents]

\* register_agent / unregister_agent: the lifecycle payloads
ConnectedPayload(id, capabilities) ==
  [event |-> "agent_connected", agent_id |-> id, capabilities |-> capabilities]
DisconnectedPayload(id) ==
  [event |-> "agent_disconnected", agent_id |-> id]

\* mutant: only the agents that declared capabilities are listed
ConnectedAgents_OnlyCapable(ag, caps) ==
  LET ids == SetToSeq(DOMAIN ag \cap DOMAIN caps)
  IN [i \in 1..Len(ids) |-> [agent_id |-> ids[i], capabilities |-> caps[ids[i]]]]

\* get_connected_agents
ConnectedAgents(ag, caps) ==
  LET ids == SetToSeq(DOMAIN ag)
  IN [i \in 1..Len(ids) |->
        [agent_id |-> ids[i],
         capabilities |-> IF ids[i] \in DOMAIN caps THEN caps[ids[i]] ELSE <<>>]]

\* get_agent_subscriptions
AgentSubscriptions(subs, id) == SetToSeq({T \in DOMAIN subs : id \in subs[T]})

\* ------------------------------------------------------------------ tasks
\* positions at which a coroutine is suspended in an await (or not running)
AwaitPcs == {"idle", "accept", "pub_send", "dm_send", "recv", "ack", "errack", "closed"}
\* t may take a step: no other task is in the middle of synchronous code
Quiet(t) == \A u \in Tasks \ {t} : pc[u] \in AwaitPcs

\* the history after the events es
Kept(e) == e.task \in log.on
Logged(es) == [log EXCEPT !.events = @ \o SelectSeq(es, Kept)]
CallEvent(t, cl) == [ev |-> "call", task |-> t, call |-> cl]
SendEvent(t, tg, e, ok) == [ev |-> "send", task |-> t, to |-> tg.ws, env |-> e, ok |-> ok]
AckEvent(c, a, ok) == [ev |-> "ack", task |-> c, ack |-> a, ok |-> ok]

\* f'{action}': the name, 'None' for a missing action
FormatAction(action) == IF action = <<>> THEN "None" ELSE action[1]

\* mutant: an action that is not known is acknowledged like get_agents
Ack_UnknownOk(cl, v) ==
  CASE cl.op = "subscribe" -> [status |-> "subscribed", topics |-> cl.topics]
    [] cl.op = "unsubscribe" -> [status |-> "unsubscribed", topics |-> cl.topics]
    [] cl.op = "publish" -> [status |-> "published", topic |-> cl.topic]
    [] cl.op = "request_collaboration" ->
         [status |-> "collaboration_requested", result |-> v]
    [] cl.op = "direct_message" ->
         [status |-> "message_sent", recipient |-> cl.recipient]
    [] OTHER -> [status |-> "ok", agents |-> v]

\* handle_agent_websocket: the acknowledgement written after the bus call of
\* control message cl returned v
Ack(cl, v) ==
  CASE cl.op = "subscribe" -> [status |-> "subscribed", topics |-> cl.topics]
    [] cl.op = "unsubscribe" -> [status |-> "unsubscribed", topics |-> cl.topics]
    [] cl.op = "publish" -> [status |-> "published", topic |-> cl.topic]
    [] cl.op = "request_collaboration" ->
         [status |-> "collaboration_requested", result |-> v]
    [] cl.op = "direct_message" ->
         [status |-> "message_sent", recipient |-> cl.recipient]
    [] cl.op = "get_agents" -> [status |-> "ok", agents |-> v]
    [] OTHER -> [status |-> "error",
                 message |-> <<"Unknown action: ", FormatAction(cl.action)>>]

\* handle_agent_websocket: the acknowledgement written by an except clause
ErrAck(e) == [status |-> "error", message |-> e]

\* mutant: register_agent is called outside the try statement, a failed
\* registration ends the handler without cleanup
PcAfter_NoCleanupAfterRegister(t, cl, out) ==
  IF t = Api THEN "done"
  ELSE CASE cl.op = "register" -> IF out.kind = "return" THEN "recv" ELSE "closed"
         [] cl.op = "unregister" -> "closed"
         [] OTHER -> IF out.kind = "return" THEN "ack" ELSE "errack"

\* mutant: the handler enters its receive loop although register_agent raised
PcAfter_LoopAfterFailedRegister(t, cl, out) ==
  IF t = Api THEN "done"
  ELSE CASE cl.op = "register" -> "recv"
         [] cl.op = "unregister" -> "closed"
         [] OTHER -> IF out.kind = "return" THEN "ack" ELSE "errack"

\* where a task continues when the bus call cl it made returns or raises:
\* the direct caller is done; the handler leaves register_agent for its
\* receive loop (or, on an error, for its finally clause), ends after
\* unregister_agent, and otherwise writes an acknowledgement, from the try
\* block ("ack") or from an except clause ("errack")
PcAfter(t, cl, out) ==
  IF t = Api THEN "done"
  ELSE CASE cl.op = "register" -> IF out.kind = "return" THEN "recv" ELSE "unreg"
         [] cl.op = "unregister" -> "closed"
         [] OTHER -> IF out.kind = "return" THEN "ack" ELSE "errack"

ResultAfter(t, cl, out) ==
  IF t = Api \/ cl.op \in {"register", "unregister"} THEN out
  ELSE IF out.kind = "return" THEN Ack(cl, out.value) ELSE ErrAck(out.error)

\* the bus call cl of task t ends with `out`; s and f are the sends and the
\* failed sends it made (no longer recorded once the handler is back in
\* receive_json or has ended)
Finish(t, cl, out, s, f) ==
  LET p == PcAfter(t, cl, out)
  IN /\ pc' = [pc EXCEPT ![t] = p]
     /\ result' = [result EXCEPT ![t] = ResultAfter(t, cl, out)]
     /\ sent' = [sent EXCEPT ![t] = IF p \in {"recv", "closed"} THEN EmptyBag ELSE s]
     /\ fails' = [fails EXCEPT ![t] = IF p \in {"recv", "closed"} THEN {} ELSE f]

\* what the outermost call returns once the publish it made has returned
ValueOf(cl) ==
  IF cl.op = "request_collaboration"
  THEN BroadcastSummary(cl.capability, cl.capable_agents)
  ELSE NoneVal

\* a mutation of the subscriber sets of the topics in `changed`, which id
\* joins or leaves, under running set iterators: such an iterator is no
\* longer in step with the hash table and may miss members (a member it has
\* yielded is not yielded again)
Touch(it, changed, id) ==
  [u \in Tasks |->
     IF pc[u] \in {"pub_iter", "pub_send"} /\ it[u].topic \in changed
     THEN [it[u] EXCEPT !.dirty = TRUE, !.stayed = @ \ {id}]
     ELSE it[u]]

\* publish, up to the for loop: return at once for an unknown topic, else
\* build the envelope and start iterating over the live subscriber set
PublishStart(t, cl, subs, it0, topic, message, sender_id) ==
  IF topic \notin DOMAIN subs
  THEN /\ Finish(t, cl, Return(ValueOf(cl)), EmptyBag, {})
       /\ message_payload' = [message_payload EXCEPT ![t] = NoEnv]
       /\ iter' = [it0 EXCEPT ![t] = NoIter]
  ELSE /\ pc' = [pc EXCEPT ![t] = "pub_iter"]
       /\ result' = [result EXCEPT ![t] = NoResult]
       /\ sent' = [sent EXCEPT ![t] = EmptyBag]
       /\ fails' = [fails EXCEPT ![t] = {}]
       /\ message_payload' =
            [message_payload EXCEPT ![t] = PubEnvelope(topic, sender_id, message)]
       /\ iter' = [it0 EXCEPT ![t] =
                     [topic |-> topic, used |-> Cardinality(subs[topic]),
                      visited |-> {}, dirty |-> FALSE,
                      stayed |-> subs[topic] \cap DOMAIN agents']]

\* publish: next() raises RuntimeError because the set changed size since the
\* iterator was made
PubIterRaise(t) ==
  /\ Cardinality(subscriptions[iter[t].topic]) # iter[t].used
  /\ Finish(t, call[t], Raise(<<"Set changed size during iteration">>),
            sent[t], fails[t])
  /\ iter' = [iter EXCEPT ![t] = NoIter]
  /\ message_payload' = [message_payload EXCEPT ![t] = NoEnv]
  /\ UNCHANGED target

\* publish: the loop ends (after a change that kept the size the iterator
\* may have missed members), publish returns
PubIterStop(t) ==
  /\ Cardinality(subscriptions[iter[t].topic]) = iter[t].used
  /\ subscriptions[iter[t].topic] \ iter[t].visited = {} \/ iter[t].dirty
  /\ Finish(t, call[t], Return(ValueOf(call[t])), sent[t], fails[t])
  /\ iter' = [iter EXCEPT ![t] = NoIter]
  /\ message_payload' = [message_payload EXCEPT ![t] = NoEnv]
  /\ UNCHANGED target

\* mutant: the loop does not test the registry before it sends; the lookup
\* of a missing entry fails inside the try and is swallowed like a failed send
PubIterYield_NoRegistryTest(t, a) ==
  /\ Cardinality(subscriptions[iter[t].topic]) = iter[t].used
  /\ a \in subscriptions[iter[t].topic] \ iter[t].visited
  /\ iter' = [iter EXCEPT ![t].visited = @ \cup {a}]
  /\ IF a # message_payload[t].sender
     THEN IF a \in DOMAIN agents
          THEN /\ pc' = [pc EXCEPT ![t] = "pub_send"]
               /\ target' = [target EXCEPT ![t] = [id |-> a, ws |-> agents[a]]]
               /\ sent' = [sent EXCEPT ![t] = @ (+) SetToBag(
                             {[id |-> a, ws |-> agents[a], env |-> message_payload[t]]})]
          ELSE /\ sent' = [sent EXCEPT ![t] = @ (+) SetToBag(
                             {[id |-> a, ws |-> 0, env |-> message_payload[t]]})]
               /\ UNCHANGED <<pc, target>>
     ELSE UNCHANGED <<pc, target, sent>>
  /\ UNCHANGED <<result, message_payload, fails>>

\* mutant: the send is started and not awaited, the loop goes on at once
PubIterYield_NoAwait(t, a) ==
  /\ Cardinality(subscriptions[iter[t].topic]) = iter[t].used
  /\ a \in subscriptions[iter[t].topic] \ iter[t].visited
  /\ iter' = [iter EXCEPT ![t].visited = @ \cup {a}]
  /\ IF ShouldSend(agents, a, message_payload[t].sender)
     THEN /\ target' = [target EXCEPT ![t] = [id |-> a, ws |-> agents[a]]]
          /\ sent' = [sent EXCEPT ![t] = @ (+) SetToBag(
                        {[id |-> a, ws |-> agents[a], env |-> message_payload[t]]})]
          /\ UNCHANGED pc
     ELSE UNCHANGED <<pc, target, sent>>
  /\ UNCHANGED <<result, message_payload, fails>>

\* publish: the loop yields subscriber a; send to it if it passes the test
PubIterYield(t, a) ==
  /\ Cardinality(subscriptions[iter[t].topic]) = iter[t].used
  /\ a \in subscriptions[iter[t].topic] \ iter[t].visited
  /\ iter' = [iter EXCEPT ![t].visited = @ \cup {a}]
  /\ IF ShouldSend(agents, a, message_payload[t].sender)
     THEN /\ pc' = [pc EXCEPT ![t] = "pub_send"]
          /\ target' = [target EXCEPT ![t] = [id |-> a, ws |-> agents[a]]]
          /\ sent' = [sent EXCEPT ![t] = @ (+) SetToBag(
                        {[id |-> a, ws |-> agents[a], env |-> message_payload[t]]})]
     ELSE UNCHANGED <<pc, target, sent>>
  /\ UNCHANGED <<result, message_payload, fails>>

\* publish: one turn of `for agent_id in subscribers`, up to the send
PubIter(t) ==
  /\ pc[t] = "pub_iter"
  /\ Quiet(t)
  /\ \/ PubIterRaise(t)
     \/ PubIterStop(t)
     \/ \E a \in AgentIds : PubIterYield(t, a)
  /\ UNCHANGED <<agents, subscriptions, agent_capabilities, open, accepted, call,
                 acks, agent_id, lastSub, departed, log>>

\* mutant: the agent whose send failed is dropped from the registry
PubSendDone_DropFailed(t) ==
  /\ pc[t] = "pub_send"
  /\ Quiet(t)
  /\ \E ok \in BOOLEAN :
       /\ ok \/ ~open[target[t].ws]
       /\ fails' = [fails EXCEPT ![t] = IF ok THEN @ ELSE @ \cup {target[t].ws}]
       /\ agents' = IF ok THEN agents ELSE UnregisterAgents(agents, target[t].id)
       /\ log' = Logged(<<SendEvent(t, target[t], message_payload[t], ok)>>)
  /\ pc' = [pc EXCEPT ![t] = "pub_iter"]
  /\ target' = [target EXCEPT ![t] = NoTarget]
  /\ UNCHANGED <<subscriptions, agent_capabilities, open, accepted, call,
                 message_payload, iter, result, sent, acks, agent_id, lastSub, departed>>

\* mutant: a failed send is not caught, it ends the publish
PubSendDone_AbortOnFailure(t) ==
  /\ pc[t] = "pub_send"
  /\ Quiet(t)
  /\ \E ok \in BOOLEAN :
       /\ ok \/ ~open[target[t].ws]
       /\ log' = Logged(<<SendEvent(t, target[t], message_payload[t], ok)>>)
       /\ IF ok
          THEN /\ pc' = [pc EXCEPT ![t] = "pub_iter"]
               /\ UNCHANGED <<result, sent, fails, iter, message_payload>>
          ELSE /\ Finish(t, call[t], Raise(<<"send failed">>), sent[t],
                         fails[t] \cup {target[t].ws})
               /\ iter' = [iter EXCEPT ![t] = NoIter]
               /\ message_payload' = [message_payload EXCEPT ![t] = NoEnv]
  /\ target' = [target EXCEPT ![t] = NoTarget]
  /\ UNCHANGED <<agents, subscriptions, agent_capabilities, open, accepted, call,
                 acks, agent_id, lastSub, departed>>

\* publish: the awaited send_json ends; an exception is printed and swallowed.
\* A send on a websocket the peer has closed may raise or not.
PubSendDone(t) ==
  /\ pc[t] = "pub_send"
  /\ Quiet(t)
  /\ \E ok \in BOOLEAN :
       /\ ok \/ ~open[target[t].ws]
       /\ fails' = [fails EXCEPT ![t] = IF ok THEN @ ELSE @ \cup {target[t].ws}]
       /\ log' = Logged(<<SendEvent(t, target[t], message_payload[t], ok)>>)
  /\ pc' = [pc EXCEPT ![t] = "pub_iter"]
  /\ target' = [target EXCEPT ![t] = NoTarget]
  /\ UNCHANGED <<agents, subscriptions, agent_capabilities, open, accepted, call,
                 message_payload, iter, result, sent, acks, agent_id, lastSub, departed>>

\* mutant: a failed send is printed and swallowed, as in publish
DmSendDone_Swallow(t) ==
  /\ pc[t] = "dm_send"
  /\ Quiet(t)
  /\ \E ok \in BOOLEAN :
       /\ ok \/ ~open[target[t].ws]
       /\ Finish(t, call[t], Return(NoneVal),
                 sent[t], IF ok THEN fails[t] ELSE fails[t] \cup {target[t].ws})
       /\ log' = Logged(<<SendEvent(t, target[t],
                                    DirectEnvelope(call[t].sender, call[t].message), ok)>>)
  /\ target' = [target EXCEPT ![t] = NoTarget]
  /\ UNCHANGED <<agents, subscriptions, agent_capabilities, open, accepted, call,
                 message_payload, iter, acks, agent_id, lastSub, departed>>

\* direct_message: the awaited send_json ends; an exception is re-raised
DmSendDone(t) ==
  /\ pc[t] = "dm_send"
  /\ Quiet(t)
  /\ \E ok \in BOOLEAN :
       /\ ok \/ ~open[target[t].ws]
       /\ Finish(t, call[t],
                 IF ok THEN Return(NoneVal) ELSE Raise(<<"send failed">>),
                 sent[t], IF ok THEN fails[t] ELSE fails[t] \cup {target[t].ws})
       /\ log' = Logged(<<SendEvent(t, target[t],
                                    DirectEnvelope(call[t].sender, call[t].message), ok)>>)
  /\ target' = [target EXCEPT ![t] = NoTarget]
  /\ UNCHANGED <<agents, subscriptions, agent_capabilities, open, accepted, call,
                 message_payload, iter, acks, agent_id, lastSub, departed>>

\* ------------------------------------------------------------------ bus calls
\* the topics on which id is registered and subscribed at once
Rejoined(ag, subs, id) ==
  {T \in DOMAIN subs : id \in DOMAIN ag /\ id \in subs[T]}

\* Each Do... is the bus method from its entry to its first await or to its
\* return, made by task t for the call record cl.

RegisterCall(id, ws, capabilities) ==
  [op |-> "register", agent_id |-> id, ws |-> ws, capabilities |-> capabilities]
\* (registered: the outcome of the test `agent_id in self._agents` on entry)
UnregisterCall(id) ==
  [op |-> "unregister", agent_id |-> id, registered |-> id \in DOMAIN agents]
SubscribeCall(id, topics) == [op |-> "subscribe", agent_id |-> id, topics |-> topics]
UnsubscribeCall(id, topics) == [op |-> "unsubscribe", agent_id |-> id, topics |-> topics]
PublishCall(topic, message, sender_id) ==
  [op |-> "publish", topic |-> topic, message |-> message, sender |-> sender_id]
CollabCall(requester_id, capability_needed, context) ==
  [op |-> "request_collaboration", requester |-> requester_id,
   capability |-> capability_needed, context |-> context,
   capable_agents |-> CapableAgents(agent_capabilities, capability_needed, requester_id)]
DirectCall(sender_id, recipient_id, message) ==
  [op |-> "direct_message", sender |-> sender_id, recipient |-> recipient_id,
   message |-> message]

\* register_agent: entry, suspended in `await websocket.accept()`
DoRegister(t, cl) ==
  /\ pc' = [pc EXCEPT ![t] = "accept"]
  /\ result' = [result EXCEPT ![t] = NoResult]
  /\ sent' = [sent EXCEPT ![t] = EmptyBag]
  /\ fails' = [fails EXCEPT ![t] = {}]
  /\ UNCHANGED <<agents, subscriptions, agent_capabilities, message_payload,
                 iter, target, lastSub, departed>>

\* register_agent: accept returned; store the websocket and the capabilities,
\* then publish agent_connected as 'system'
AcceptOk(t, cl) ==
  /\ ~accepted[cl.ws]
  /\ accepted' = [accepted EXCEPT ![cl.ws] = TRUE]
  /\ agents' = RegisterAgents(agents, cl.agent_id, cl.ws)
  /\ agent_capabilities' =
       RegisterCapabilities(agent_capabilities, cl.agent_id, cl.capabilities)
  /\ departed' = [departed EXCEPT ![cl.agent_id] =
                    @ \ Rejoined(RegisterAgents(agents, cl.agent_id, cl.ws),
                                 subscriptions, cl.agent_id)]
  /\ PublishStart(t, cl, subscriptions, iter, LIFECYCLE,
                  ConnectedPayload(cl.agent_id, cl.capabilities), SYSTEM)

\* register_agent: accept raised (the peer is gone, or the websocket has
\* been accepted before)
AcceptFail(t, cl) ==
  /\ ~open[cl.ws] \/ accepted[cl.ws]
  /\ Finish(t, cl, Raise(<<"accept failed">>), EmptyBag, {})
  /\ UNCHANGED <<agents, agent_capabilities, accepted, departed, message_payload,
                 iter>>

AcceptDone(t) ==
  /\ pc[t] = "accept"
  /\ Quiet(t)
  /\ AcceptOk(t, call[t]) \/ AcceptFail(t, call[t])
  /\ UNCHANGED <<subscriptions, open, call, target, acks, agent_id, lastSub, log>>

\* unregister_agent: the removals, then publish agent_disconnected as 'system'
DoUnregister(t, cl) ==
  LET id == cl.agent_id
      changed == {T \in DOMAIN subscriptions : id \in subscriptions[T]}
  IN /\ agents' = UnregisterAgents(agents, id)
     /\ subscriptions' = UnregisterSubscriptions(subscriptions, id)
     /\ agent_capabilities' = UnregisterCapabilities(agent_capabilities, id)
     /\ lastSub' = [lastSub EXCEPT ![id] = {}]
     /\ departed' = [departed EXCEPT ![id] = @ \cup changed]
     /\ PublishStart(t, cl, UnregisterSubscriptions(subscriptions, id),
                     Touch(iter, changed, id), LIFECYCLE,
                     DisconnectedPayload(id), SYSTEM)
     /\ UNCHANGED target

\* mutant: subscribe rejects an id that is not in the registry
DoSubscribe_RegisteredOnly(t, cl) ==
  LET id == cl.agent_id
      changed == {T \in Range(cl.topics) :
                    T \notin DOMAIN subscriptions \/ id \notin subscriptions[T]}
  IN IF id \notin DOMAIN agents
     THEN /\ Finish(t, cl, Raise(<<"Agent not registered: ", id>>), EmptyBag, {})
          /\ UNCHANGED <<agents, subscriptions, agent_capabilities, message_payload,
                         iter, target, lastSub, departed>>
     ELSE /\ subscriptions' = Subscribe(subscriptions, id, cl.topics)
          /\ iter' = Touch(iter, changed, id)
          /\ lastSub' = [lastSub EXCEPT ![id] = @ \cup Range(cl.topics)]
          /\ departed' = [departed EXCEPT ![id] =
                            @ \ Rejoined(agents, Subscribe(subscriptions, id, cl.topics), id)]
          /\ Finish(t, cl, Return(NoneVal), EmptyBag, {})
          /\ UNCHANGED <<agents, agent_capabilities, message_payload, target>>

\* subscribe
DoSubscribe(t, cl) ==
  LET id == cl.agent_id
      changed == {T \in Range(cl.topics) :
                    T \notin DOMAIN subscriptions \/ id \notin subscriptions[T]}
  IN /\ subscriptions' = Subscribe(subscriptions, id, cl.topics)
     /\ iter' = Touch(iter, changed, id)
     /\ lastSub' = [lastSub EXCEPT ![id] = @ \cup Range(cl.topics)]
     /\ departed' = [departed EXCEPT ![id] =
                       @ \ Rejoined(agents, Subscribe(subscriptions, id, cl.topics), id)]
     /\ Finish(t, cl, Return(NoneVal), EmptyBag, {})
     /\ UNCHANGED <<agents, agent_capabilities, message_payload, target>>

\* unsubscribe
DoUnsubscribe(t, cl) ==
  LET id == cl.agent_id
      changed == {T \in Range(cl.topics) \cap DOMAIN subscriptions :
                    id \in subscriptions[T]}
  IN /\ subscriptions' = Unsubscribe(subscriptions, id, cl.topics)
     /\ iter' = Touch(iter, changed, id)
     /\ lastSub' = [lastSub EXCEPT ![id] = @ \ Range(cl.topics)]
     /\ UNCHANGED departed
     /\ Finish(t, cl, Return(NoneVal), EmptyBag, {})
     /\ UNCHANGED <<agents, agent_capabilities, message_payload, target>>

\* mutant: a publish that nobody listens to is an error
DoPublish_RequireSubscribers(t, cl) ==
  /\ UNCHANGED <<agents, subscriptions, agent_capabilities, target, lastSub, departed>>
  /\ IF cl.topic \notin DOMAIN subscriptions \/ subscriptions[cl.topic] = {}
     THEN /\ Finish(t, cl, Raise(<<"No subscribers: ", cl.topic>>), EmptyBag, {})
          /\ UNCHANGED <<message_payload, iter>>
     ELSE PublishStart(t, cl, subscriptions, iter, cl.topic, cl.message, cl.sender)

\* publish
DoPublish(t, cl) ==
  /\ UNCHANGED <<agents, subscriptions, agent_capabilities, target, lastSub, departed>>
  /\ PublishStart(t, cl, subscriptions, iter, cl.topic, cl.message, cl.sender)

\* mutant: the request is broadcast even when nobody is capable
DoRequestCollaboration_AlwaysPublish(t, cl) ==
  /\ UNCHANGED <<agents, subscriptions, agent_capabilities, target, lastSub, departed>>
  /\ PublishStart(t, cl, subscriptions, iter, COLLAB,
                  CollabPayload(cl.capability, cl.context, cl.requester,
                                cl.capable_agents),
                  cl.requester)

\* mutant: the request is published only when one of its targets is
\* subscribed to collaboration_request
DoRequestCollaboration_TargetsOnly(t, cl) ==
  /\ UNCHANGED <<agents, subscriptions, agent_capabilities, target, lastSub, departed>>
  /\ IF cl.capable_agents = <<>>
     THEN /\ Finish(t, cl, Return(NoCapableSummary(cl.capability)), EmptyBag, {})
          /\ UNCHANGED <<message_payload, iter>>
     ELSE IF \A a \in Range(cl.capable_agents) :
               COLLAB \notin DOMAIN subscriptions \/ a \notin subscriptions[COLLAB]
     THEN /\ Finish(t, cl, Return(ValueOf(cl)), EmptyBag, {})
          /\ message_payload' = [message_payload EXCEPT ![t] = NoEnv]
          /\ iter' = [iter EXCEPT ![t] = NoIter]
     ELSE PublishStart(t, cl, subscriptions, iter, COLLAB,
                       CollabPayload(cl.capability, cl.context, cl.requester,
                                     cl.capable_agents),
                       cl.requester)

\* request_collaboration (cl.capable_agents is the list it computed on entry)
DoRequestCollaboration(t, cl) ==
  /\ UNCHANGED <<agents, subscriptions, agent_capabilities, target, lastSub, departed>>
  /\ IF cl.capable_agents = <<>>
     THEN /\ Finish(t, cl, Return(NoCapableSummary(cl.capability)), EmptyBag, {})
          /\ UNCHANGED <<message_payload, iter>>
     ELSE PublishStart(t, cl, subscriptions, iter, COLLAB,
                       CollabPayload(cl.capability, cl.context, cl.requester,
                                     cl.capable_agents),
                       cl.requester)

\* mutant: a missing recipient is skipped silently
DoDirectMessage_Silent(t, cl) ==
  /\ IF cl.recipient \notin DOMAIN agents
     THEN /\ Finish(t, cl, Return(NoneVal), EmptyBag, {})
          /\ UNCHANGED target
     ELSE /\ pc' = [pc EXCEPT ![t] = "dm_send"]
          /\ result' = [result EXCEPT ![t] = NoResult]
          /\ target' = [target EXCEPT ![t] =
                          [id |-> cl.recipient, ws |-> agents[cl.recipient]]]
          /\ sent' = [sent EXCEPT ![t] = SetToBag(
                        {[id |-> cl.recipient, ws |-> agents[cl.recipient],
                          env |-> DirectEnvelope(cl.sender, cl.message)]})]
          /\ fails' = [fails EXCEPT ![t] = {}]
  /\ UNCHANGED <<agents, subscriptions, agent_capabilities, message_payload,
                 iter, lastSub, departed>>

\* direct_message, up to the awaited send
DoDirectMessage(t, cl) ==
  /\ IF cl.recipient \notin DOMAIN agents
     THEN /\ Finish(t, cl, Raise(<<"Recipient agent not found: ", cl.recipient>>),
                    EmptyBag, {})
          /\ UNCHANGED target
     ELSE /\ pc' = [pc EXCEPT ![t] = "dm_send"]
          /\ result' = [result EXCEPT ![t] = NoResult]
          /\ target' = [target EXCEPT ![t] =
                          [id |-> cl.recipient, ws |-> agents[cl.recipient]]]
          /\ sent' = [sent EXCEPT ![t] = SetToBag(
                        {[id |-> cl.recipient, ws |-> agents[cl.recipient],
                          env |-> DirectEnvelope(cl.sender, cl.message)]})]
          /\ fails' = [fails EXCEPT ![t] = {}]
  /\ UNCHANGED <<agents, subscriptions, agent_capabilities, message_payload,
                 iter, lastSub, departed>>

\* get_connected_agents
DoGetAgents(t, cl) ==
  /\ Finish(t, cl, Return(ConnectedAgents(agents, agent_capabilities)), EmptyBag, {})
  /\ UNCHANGED <<agents, subscriptions, agent_capabilities, message_payload,
                 iter, target, lastSub, departed>>

\* a control message that reaches no bus method: an unknown action, an
\* undecodable message, a disconnect reported by receive_json
DoNothing(t, cl, out) ==
  /\ Finish(t, cl, out, EmptyBag, {})
  /\ UNCHANGED <<agents, subscriptions, agent_capabilities, message_payload,
                 iter, target, lastSub, departed>>

\* ------------------------------------------------------------------ handler
\* handle_agent_websocket(websocket c, agent_id id) starts: it calls
\* register_agent(agent_id, websocket), without capabilities
HandlerStart(c, id) ==
  /\ pc[c] = "idle"
  /\ Quiet(c)
  /\ agent_id' = [agent_id EXCEPT ![c] = id]
  /\ call' = [call EXCEPT ![c] = RegisterCall(id, c, <<>>)]
  /\ DoRegister(c, RegisterCall(id, c, <<>>))
  /\ UNCHANGED <<open, accepted, acks, log>>

\* mutant: the handler reads its next message while the acknowledgement of
\* the one before is still to be written
Received_BeforeAck(c, cl) ==
  /\ pc[c] \in {"recv", "ack"}
  /\ Quiet(c)
  /\ open[c]
  /\ call' = [call EXCEPT ![c] = cl]
  /\ log' = Logged(<<CallEvent(c, cl)>>)
  /\ UNCHANGED <<open, accepted, acks, agent_id>>

\* receive_json returned the control message cl: dispatch it
Received(c, cl) ==
  /\ pc[c] = "recv"
  /\ Quiet(c)
  /\ open[c]
  /\ call' = [call EXCEPT ![c] = cl]
  /\ log' = Logged(<<CallEvent(c, cl)>>)
  /\ UNCHANGED <<open, accepted, acks, agent_id>>

RecvSubscribe(c, topics) ==
  /\ Received(c, SubscribeCall(agent_id[c], topics))
  /\ DoSubscribe(c, SubscribeCall(agent_id[c], topics))

RecvUnsubscribe(c, topics) ==
  /\ Received(c, UnsubscribeCall(agent_id[c], topics))
  /\ DoUnsubscribe(c, UnsubscribeCall(agent_id[c], topics))

RecvPublish(c, topic, message) ==
  /\ Received(c, PublishCall(topic, message, agent_id[c]))
  /\ DoPublish(c, PublishCall(topic, message, agent_id[c]))

RecvCollaboration(c, capability, context) ==
  /\ Received(c, CollabCall(agent_id[c], capability, context))
  /\ DoRequestCollaboration(c, CollabCall(agent_id[c], capability, context))

RecvDirectMessage(c, recipient, message) ==
  /\ Received(c, DirectCall(agent_id[c], recipient, message))
  /\ DoDirectMessage(c, DirectCall(agent_id[c], recipient, message))

RecvGetAgents(c) ==
  /\ Received(c, [op |-> "get_agents"])
  /\ DoGetAgents(c, [op |-> "get_agents"])

\* an action that is none of the six (or no action at all)
RecvUnknown(c, action) ==
  /\ IF action = <<>> THEN TRUE ELSE action[1] \notin KnownActions
  /\ Received(c, [op |-> "unknown", action |-> action])
  /\ DoNothing(c, [op |-> "unknown", action |-> action], Return(NoneVal))

\* mutant: an undecodable message ends the handler
RecvMalformed_Terminate(c) ==
  /\ Received(c, [op |-> "malformed"])
  /\ pc' = [pc EXCEPT ![c] = "unreg"]
  /\ UNCHANGED <<agents, subscriptions, agent_capabilities, message_payload,
                 iter, target, result, sent, fails, lastSub, departed>>

\* receive_json raised json.JSONDecodeError: its except clause writes the error
RecvMalformed(c) ==
  /\ Received(c, [op |-> "malformed"])
  /\ DoNothing(c, [op |-> "malformed"], Raise(<<"Invalid JSON">>))

\* receive_json raised because the peer is gone (WebSocketDisconnect, a
\* subclass of Exception, or RuntimeError on a later call): the inner
\* `except Exception` catches it first and writes an error acknowledgement
RecvDisconnect(c) ==
  /\ pc[c] = "recv"
  /\ Quiet(c)
  /\ ~open[c]
  /\ call' = [call EXCEPT ![c] = [op |-> "disconnect"]]
  /\ DoNothing(c, [op |-> "disconnect"], Raise(<<"disconnect">>))
  /\ log' = Logged(<<CallEvent(c, [op |-> "disconnect"])>>)
  /\ UNCHANGED <<open, accepted, acks, agent_id>>

\* the handler is back in `await websocket.receive_json()`: nothing of the
\* message it has just processed is kept
BackToReceive(c) ==
  /\ pc' = [pc EXCEPT ![c] = "recv"]
  /\ call' = [call EXCEPT ![c] = NoCall]
  /\ result' = [result EXCEPT ![c] = NoResult]
  /\ sent' = [sent EXCEPT ![c] = EmptyBag]
  /\ fails' = [fails EXCEPT ![c] = {}]
  /\ acks' = [acks EXCEPT ![c] = <<>>]

\* the acknowledgement written in the try block was sent
AckSent(c) ==
  /\ pc[c] = "ack"
  /\ Quiet(c)
  /\ BackToReceive(c)
  /\ log' = Logged(<<AckEvent(c, result[c], TRUE)>>)
  /\ UNCHANGED <<agents, subscriptions, agent_capabilities, open, accepted,
                 message_payload, iter, target, agent_id, lastSub, departed>>

\* the send of the acknowledgement written in the try block raised: the inner
\* `except Exception` writes an error acknowledgement
AckFailed(c) ==
  /\ pc[c] = "ack"
  /\ Quiet(c)
  /\ ~open[c]
  /\ acks' = [acks EXCEPT ![c] = Append(@, [ack |-> result[c], ok |-> FALSE])]
  /\ log' = Logged(<<AckEvent(c, result[c], FALSE)>>)
  /\ pc' = [pc EXCEPT ![c] = "errack"]
  /\ result' = [result EXCEPT ![c] = ErrAck(<<"send failed">>)]
  /\ UNCHANGED <<agents, subscriptions, agent_capabilities, open, accepted, call,
                 message_payload, iter, target, sent, fails, agent_id, lastSub, departed>>

\* the acknowledgement written by an except clause was sent
ErrAckSent(c) ==
  /\ pc[c] = "errack"
  /\ Quiet(c)
  /\ BackToReceive(c)
  /\ log' = Logged(<<AckEvent(c, result[c], TRUE)>>)
  /\ UNCHANGED <<agents, subscriptions, agent_capabilities, open, accepted,
                 message_payload, iter, target, agent_id, lastSub, departed>>

\* mutant: the failed send of an error acknowledgement is swallowed, the
\* loop goes on
ErrAckFailed_Swallow(c) ==
  /\ pc[c] = "errack"
  /\ Quiet(c)
  /\ ~open[c]
  /\ BackToReceive(c)
  /\ log' = Logged(<<AckEvent(c, result[c], FALSE)>>)
  /\ UNCHANGED <<agents, subscriptions, agent_capabilities, open, accepted,
                 message_payload, iter, target, agent_id, lastSub, departed>>

\* the send of an acknowledgement written by an except clause raised: the
\* exception leaves the loop, the finally clause runs
ErrAckFailed(c) ==
  /\ pc[c] = "errack"
  /\ Quiet(c)
  /\ ~open[c]
  /\ acks' = [acks EXCEPT ![c] = Append(@, [ack |-> result[c], ok |-> FALSE])]
  /\ log' = Logged(<<AckEvent(c, result[c], FALSE)>>)
  /\ pc' = [pc EXCEPT ![c] = "unreg"]
  /\ result' = [result EXCEPT ![c] = NoResult]
  /\ UNCHANGED <<agents, subscriptions, agent_capabilities, open, accepted, call,
                 message_payload, iter, target, sent, fails, agent_id, lastSub, departed>>

\* finally: unregister_agent(agent_id)
HandlerUnregister(c) ==
  /\ pc[c] = "unreg"
  /\ call' = [call EXCEPT ![c] = UnregisterCall(agent_id[c])]
  /\ acks' = [acks EXCEPT ![c] = <<>>]
  /\ DoUnregister(c, UnregisterCall(agent_id[c]))
  /\ UNCHANGED <<open, accepted, agent_id, log>>

\* the peer closes websocket c
ClientClose(c) ==
  /\ open[c]
  /\ \A u \in Tasks : pc[u] \in AwaitPcs
  /\ open' = [open EXCEPT ![c] = FALSE]
  /\ UNCHANGED <<agents, subscriptions, agent_capabilities, accepted, pc, call,
                 message_payload, iter, target, result, sent, fails, acks,
                 agent_id, lastSub, departed, log>>

Next ==
  \/ \E c \in Conns, id \in AgentIds : HandlerStart(c, id)
  \/ \E c \in Conns : AcceptDone(c)
  \/ \E c \in Conns, topics \in MsgTopicLists : RecvSubscribe(c, topics)
  \/ \E c \in Conns, topics \in MsgTopicLists : RecvUnsubscribe(c, topics)
  \/ \E c \in Conns, topic \in Topics, m \in Messages : RecvPublish(c, topic, m)
  \/ \E c \in Conns, cap \in RequestCaps, ctx \in Contexts :
       RecvCollaboration(c, cap, ctx)
  \/ \E c \in Conns, r \in AgentIds, m \in Messages : RecvDirectMessage(c, r, m)
  \/ \E c \in Conns : RecvGetAgents(c)
  \/ \E c \in Conns, action \in OtherActions : RecvUnknown(c, action)
  \/ \E c \in Conns : RecvMalformed(c)
  \/ \E c \in Conns : RecvDisconnect(c)
  \/ \E c \in Conns : PubIter(c)
  \/ \E c \in Conns : PubSendDone(c)
  \/ \E c \in Conns : DmSendDone(c)
  \/ \E c \in Conns : AckSent(c)
  \/ \E c \in Conns : AckFailed(c)
  \/ \E c \in Conns : ErrAckSent(c)
  \/ \E c \in Conns : ErrAckFailed(c)
  \/ \E c \in Conns : HandlerUnregister(c)
  \/ \E c \in Conns : ClientClose(c)

Spec == Init /\ [][Next]_vars

\* ------------------------------------------------------------------ liveness
\* The handlers on a transport on which a handler's send on its own
\* connection fails once the peer has closed that connection.
AckSentOpen(c) == open[c] /\ AckSent(c)
ErrAckSentOpen(c) == open[c] /\ ErrAckSent(c)

\* the steps of the handler of connection c once it has started; of the
\* control messages it takes subscribe, publish, direct_message and the
\* undecodable one (the others reach the acknowledgement the same ways)
LiveStep(c) ==
  \/ AcceptDone(c)
  \/ \E topics \in MsgTopicLists : RecvSubscribe(c, topics)
  \/ \E topic \in Topics, m \in Messages : RecvPublish(c, topic, m)
  \/ \E r \in AgentIds, m \in Messages : RecvDirectMessage(c, r, m)
  \/ RecvMalformed(c)
  \/ RecvDisconnect(c)
  \/ PubIter(c)
  \/ PubSendDone(c)
  \/ DmSendDone(c)
  \/ AckSentOpen(c)
  \/ AckFailed(c)
  \/ ErrAckSentOpen(c)
  \/ ErrAckFailed(c)
  \/ HandlerUnregister(c)

LiveNext ==
  \/ \E c \in Conns, id \in AgentIds : HandlerStart(c, id)
  \/ \E c \in Conns : LiveStep(c)
  \/ \E c \in Conns : ClientClose(c)

\* Scheduling: the event loop resumes every coroutine whose await has
\* completed, and every awaited accept or send completes or raises; the
\* synchronous code of another task delays a resumption only for a moment.
\* A handler in receive_json on an open connection may wait forever: a
\* message arrives or the peer closes, and neither has to happen.
LiveSpec ==
  /\ Init
  /\ [][LiveNext]_vars
  /\ \A c \in Conns : SF_vars(LiveStep(c) /\ (pc[c] = "recv" => ~open[c]))

\* The same handlers on a transport on which an awaited send_json to another
\* agent's connection need not ever complete (a peer that does not read: the
\* bus sets no timeout on a send): every other await completes or raises.
StallStep(c) ==
  \/ AcceptDone(c)
  \/ \E topics \in MsgTopicLists : RecvSubscribe(c, topics)
  \/ \E topic \in Topics, m \in Messages : RecvPublish(c, topic, m)
  \/ \E r \in AgentIds, m \in Messages : RecvDirectMessage(c, r, m)
  \/ RecvMalformed(c)
  \/ RecvDisconnect(c)
  \/ PubIter(c)
  \/ AckSentOpen(c)
  \/ AckFailed(c)
  \/ ErrAckSentOpen(c)
  \/ ErrAckFailed(c)
  \/ HandlerUnregister(c)

StallSpec ==
  /\ Init
  /\ [][LiveNext]_vars
  /\ \A c \in Conns : SF_vars(StallStep(c) /\ (pc[c] = "recv" => ~open[c]))

\* ------------------------------------------------------------------ direct caller
\* the caller makes its next call when the one before has returned or raised
ApiCall(cl) ==
  /\ pc[Api] = "idle"
  /\ call' = [call EXCEPT ![Api] = cl]
  /\ log' = Logged(<<CallEvent(Api, cl)>>)
  /\ UNCHANGED <<open, accepted, acks, agent_id>>

ApiRegister(id, ws, capabilities) ==
  /\ ApiCall(RegisterCall(id, ws, capabilities))
  /\ DoRegister(Api, RegisterCall(id, ws, capabilities))

ApiUnregister(id) ==
  /\ ApiCall(UnregisterCall(id))
  /\ DoUnregister(Api, UnregisterCall(id))

ApiSubscribe(id, topics) ==
  /\ ApiCall(SubscribeCall(id, topics))
  /\ DoSubscribe(Api, SubscribeCall(id, topics))

ApiUnsubscribe(id, topics) ==
  /\ ApiCall(UnsubscribeCall(id, topics))
  /\ DoUnsubscribe(Api, UnsubscribeCall(id, topics))

ApiPublish(topic, message, sender_id) ==
  /\ ApiCall(PublishCall(topic, message, sender_id))
  /\ DoPublish(Api, PublishCall(topic, message, sender_id))

ApiRequestCollaboration(requester_id, capability, context) ==
  /\ ApiCall(CollabCall(requester_id, capability, context))
  /\ DoRequestCollaboration(Api, CollabCall(requester_id, capability, context))

ApiDirectMessage(sender_id, recipient_id, message) ==
  /\ ApiCall(DirectCall(sender_id, recipient_id, message))
  /\ DoDirectMessage(Api, DirectCall(sender_id, recipient_id, message))

\* the caller has taken the result of its call
ApiReturn ==
  /\ pc[Api] = "done"
  /\ pc' = [pc EXCEPT ![Api] = "idle"]
  /\ call' = [call EXCEPT ![Api] = NoCall]
  /\ result' = [result EXCEPT ![Api] = NoResult]
  /\ sent' = [sent EXCEPT ![Api] = EmptyBag]
  /\ fails' = [fails EXCEPT ![Api] = {}]
  /\ UNCHANGED <<agents, subscriptions, agent_capabilities, open, accepted,
                 message_payload, iter, target, acks, agent_id, lastSub, departed, log>>

ApiNext ==
  \/ \E id \in AgentIds, ws \in Conns, caps \in CapLists : ApiRegister(id, ws, caps)
  \/ \E id \in AgentIds : ApiUnregister(id)
  \/ \E id \in AgentIds, topics \in TopicLists : ApiSubscribe(id, topics)
  \/ \E id \in AgentIds, topics \in TopicLists : ApiUnsubscribe(id, topics)
  \/ \E topic \in Topics, m \in Messages, s \in CallerIds : ApiPublish(topic, m, s)
  \/ \E q \in CallerIds, cap \in RequestCaps, ctx \in Contexts :
       ApiRequestCollaboration(q, cap, ctx)
  \/ \E s \in CallerIds, r \in AgentIds, m \in Messages : ApiDirectMessage(s, r, m)
  \/ AcceptDone(Api)
  \/ PubIter(Api)
  \/ PubSendDone(Api)
  \/ DmSendDone(Api)
  \/ ApiReturn
  \/ \E c \in Conns : ClientClose(c)

ApiSpec == Init /\ [][ApiNext]_vars

\* the direct caller registers agents under ids that include the empty
\* string, subscribes agents and lets the notifications be delivered
EmptyIdNext ==
  \/ \E id \in AgentIds \cup {EMPTY}, ws \in Conns, caps \in CapLists :
       ApiRegister(id, ws, caps)
  \/ \E id \in AgentIds, topics \in TopicLists : ApiSubscribe(id, topics)
  \/ AcceptDone(Api)
  \/ PubIter(Api)
  \/ PubSendDone(Api)
  \/ ApiReturn
  \/ \E c \in Conns : ClientClose(c)

EmptyIdSpec == Init /\ [][EmptyIdNext]_vars

\* the handlers together with a caller that uses the bus directly while they
\* run: it subscribes ids, registered or not, and publishes under an id of
\* its own; its calls start while every handler is suspended in an await
RaceSubscribe(id, topics) == Quiet(Api) /\ ApiSubscribe(id, topics)
RacePublish(topic, message, sender_id) == Quiet(Api) /\ ApiPublish(topic, message, sender_id)

RaceNext ==
  \/ \E c \in Conns, id \in AgentIds : HandlerStart(c, id)
  \/ \E c \in Conns : AcceptDone(c)
  \/ \E c \in Conns, topics \in MsgTopicLists : RecvSubscribe(c, topics)
  \/ \E c \in Conns : RecvDisconnect(c)
  \/ \E t \in Tasks : PubIter(t)
  \/ \E t \in Tasks : PubSendDone(t)
  \/ \E c \in Conns : AckSent(c)
  \/ \E c \in Conns : AckFailed(c)
  \/ \E c \in Conns : ErrAckSent(c)
  \/ \E c \in Conns : ErrAckFailed(c)
  \/ \E c \in Conns : HandlerUnregister(c)
  \/ \E c \in Conns : ClientClose(c)
  \/ \E id \in AgentIds, topics \in MsgTopicLists : RaceSubscribe(id, topics)
  \/ \E topic \in Topics, m \in Messages : RacePublish(topic, m, OUTSIDER)
  \/ ApiReturn

RaceSpec == Init /\ [][RaceNext]_vars

\* a direct caller that subscribes an id only while the id is not in the
\* registry, registers agents and publishes; it never unsubscribes and never
\* unregisters, so every subscription of a registered agent was made before
\* the agent registered
EarlySubscribe(id, topics) == id \notin DOMAIN agents /\ ApiSubscribe(id, topics)

EarlyNext ==
  \/ \E id \in AgentIds, ws \in Conns, caps \in CapLists : ApiRegister(id, ws, caps)
  \/ \E id \in AgentIds, topics \in TopicLists : EarlySubscribe(id, topics)
  \/ \E topic \in Topics, m \in Messages, s \in CallerIds : ApiPublish(topic, m, s)
  \/ AcceptDone(Api)
  \/ PubIter(Api)
  \/ PubSendDone(Api)
  \/ ApiReturn
  \/ \E c \in Conns : ClientClose(c)

EarlySpec == Init /\ [][EarlyNext]_vars

\* the handlers, each for an agent id of its own, with the history of the
\* first connection's handler kept: its client sends at most two publish
\* messages, M1 first and then M2, and at most one direct message; the
\* clients of the others subscribe
M1 == [msg |-> "m1"]
M2 == [msg |-> "m2"]

CallsOf(c, op) ==
  {i \in DOMAIN log.events :
     /\ log.events[i].ev = "call" /\ log.events[i].task = c
     /\ log.events[i].call.op = op}

Publisher == CHOOSE c \in Conns : \A d \in Conns : c <= d

OrderStart(c) == HandlerStart(c, IdNames[c])

OrderSubscribe(c, topics) == c # Publisher /\ RecvSubscribe(c, topics)

OrderPublish(c, topic, m) ==
  /\ c = Publisher
  /\ Cardinality(CallsOf(c, "publish")) < 2
  /\ m = IF CallsOf(c, "publish") = {} THEN M1 ELSE M2
  /\ RecvPublish(c, topic, m)

OrderDirect(c, recipient, m) ==
  /\ c = Publisher
  /\ CallsOf(c, "direct_message") = {}
  /\ RecvDirectMessage(c, recipient, m)

\* (the history records one report of a disconnect for each connection)
OrderDisconnect(c) == CallsOf(c, "disconnect") = {} /\ RecvDisconnect(c)

OrderInit == InitState /\ log = [on |-> {Publisher}, events |-> <<>>]

OrderNext ==
  \/ \E c \in Conns : OrderStart(c)
  \/ \E c \in Conns : AcceptDone(c)
  \/ \E c \in Conns, topics \in MsgTopicLists : OrderSubscribe(c, topics)
  \/ \E c \in Conns, topic \in Topics, m \in {M1, M2} : OrderPublish(c, topic, m)
  \/ \E c \in Conns, r \in AgentIds, m \in {M1} : OrderDirect(c, r, m)
  \/ \E c \in Conns : OrderDisconnect(c)
  \/ \E c \in Conns : PubIter(c)
  \/ \E c \in Conns : PubSendDone(c)
  \/ \E c \in Conns : DmSendDone(c)
  \/ \E c \in Conns : AckSent(c)
  \/ \E c \in Conns : AckFailed(c)
  \/ \E c \in Conns : ErrAckSent(c)
  \/ \E c \in Conns : ErrAckFailed(c)
  \/ \E c \in Conns : HandlerUnregister(c)
  \/ \E c \in Conns : ClientClose(c)

OrderSpec == OrderInit /\ [][OrderNext]_vars

\* the handlers when no two of them that are running use the same agent id:
\* a handler starts for an id only while no other handler that has started
\* and not ended was started for that id
UniqueStart(c, id) ==
  /\ \A d \in Conns \ {c} : pc[d] \in {"idle", "closed"} \/ agent_id[d] # id
  /\ HandlerStart(c, id)

UniqueNext ==
  \/ \E c \in Conns, id \in AgentIds : UniqueStart(c, id)
  \/ \E c \in Conns : AcceptDone(c)
  \/ \E c \in Conns, topics \in MsgTopicLists : RecvSubscribe(c, topics)
  \/ \E c \in Conns, topics \in MsgTopicLists : RecvUnsubscribe(c, topics)
  \/ \E c \in Conns, topic \in Topics, m \in Messages : RecvPublish(c, topic, m)
  \/ \E c \in Conns, cap \in RequestCaps, ctx \in Contexts :
       RecvCollaboration(c, cap, ctx)
  \/ \E c \in Conns, r \in AgentIds, m \in Messages : RecvDirectMessage(c, r, m)
  \/ \E c \in Conns : RecvGetAgents(c)
  \/ \E c \in Conns, action \in OtherActions : RecvUnknown(c, action)
  \/ \E c \in Conns : RecvMalformed(c)
  \/ \E c \in Conns : RecvDisconnect(c)
  \/ \E c \in Conns : PubIter(c)
  \/ \E c \in Conns : PubSendDone(c)
  \/ \E c \in Conns : DmSendDone(c)
  \/ \E c \in Conns : AckSent(c)
  \/ \E c \in Conns : AckFailed(c)
  \/ \E c \in Conns : ErrAckSent(c)
  \/ \E c \in Conns : ErrAckFailed(c)
  \/ \E c \in Conns : HandlerUnregister(c)
  \/ \E c \in Conns : ClientClose(c)

UniqueSpec == Init /\ [][UniqueNext]_vars

\* the handlers when the control messages carry fields the handler does not
\* read: a `sender` (publish, direct_message) or `requester`
\* (request_collaboration) naming any id, repeated inside the message body.
\* Before the handlers start a direct caller registers agents with
\* capabilities and subscribes agents, so that collaboration requests find
\* targets.  No peer closes its connection: a handler ends only when its
\* accept fails.
Claimed == AgentIds \cup {SYSTEM}
ForgedBody(s) == [msg |-> "m", sender |-> s]
PublishData(topic, s) ==
  [action |-> "publish", topic |-> topic, message |-> ForgedBody(s), sender |-> s]
DirectData(recipient, s) ==
  [action |-> "direct_message", recipient |-> recipient, message |-> ForgedBody(s),
   sender |-> s]
CollabData(capability, s) ==
  [action |-> "request_collaboration", capability |-> capability,
   context |-> ForgedBody(s), requester |-> s]

\* mutant: the handler takes the sender from the message when it names one
PublishArgs_TrustSender(c, data) ==
  PublishCall(data.topic, data.message, data.sender)

\* the arguments the handler passes to the bus for the control message data
PublishArgs(c, data) == PublishCall(data.topic, data.message, agent_id[c])
DirectArgs(c, data) == DirectCall(agent_id[c], data.recipient, data.message)
CollabArgs(c, data) == CollabCall(agent_id[c], data.capability, data.context)

ForgedPublish(c, data) ==
  /\ Received(c, PublishArgs(c, data))
  /\ DoPublish(c, PublishArgs(c, data))
ForgedDirect(c, data) ==
  /\ Received(c, DirectArgs(c, data))
  /\ DoDirectMessage(c, DirectArgs(c, data))
ForgedCollab(c, data) ==
  /\ Received(c, CollabArgs(c, data))
  /\ DoRequestCollaboration(c, CollabArgs(c, data))

NoneStarted == \A c \in Conns : pc[c] = "idle"
ForgeRegister(id, ws, capabilities) == NoneStarted /\ ApiRegister(id, ws, capabilities)
ForgeSubscribe(id, topics) == NoneStarted /\ ApiSubscribe(id, topics)
ForgeStart(c, id) == pc[Api] = "idle" /\ HandlerStart(c, id)

ForgeNext ==
  \/ \E c \in Conns, id \in AgentIds : ForgeStart(c, id)
  \/ \E t \in Tasks : AcceptDone(t)
  \/ \E c \in Conns, topic \in Topics, s \in Claimed :
       ForgedPublish(c, PublishData(topic, s))
  \/ \E c \in Conns, r \in AgentIds, s \in Claimed :
       ForgedDirect(c, DirectData(r, s))
  \/ \E c \in Conns, cap \in Capabilities, s \in Claimed :
       ForgedCollab(c, CollabData(cap, s))
  \/ \E t \in Tasks : PubIter(t)
  \/ \E t \in Tasks : PubSendDone(t)
  \/ \E c \in Conns : DmSendDone(c)
  \/ \E c \in Conns : AckSent(c)
  \/ \E c \in Conns : ErrAckSent(c)
  \/ \E c \in Conns : HandlerUnregister(c)
  \/ \E id \in AgentIds, ws \in Conns, caps \in CapLists \ {<<>>} :
       ForgeRegister(id, ws, caps)
  \/ \E id \in AgentIds, topics \in MsgTopicLists : ForgeSubscribe(id, topics)
  \/ ApiReturn

ForgeSpec == Init /\ [][ForgeNext]_vars

\* ------------------------------------------------------------------ retry
\* OpenSkyOAuth2Client.execute_with_retry (src/app/oauth2_client.py).  The
\* caller task runs it once.  `func` is given by the outcomes of its
\* successive invocations; call[Api] is the frame of the call: func, whether
\* the client is configured, and the loop variable `attempt`.  The history
\* records each invocation of func and each get_access_token in order.

MAX_RETRIES == 2
MaxInvocations == 3          \* outcomes drawn for func, one more than it can use

Returns(v) == [kind |-> "ok", status |-> 200, value |-> v]
HTTPStatusError(s) == [kind |-> "http", status |-> s, value |-> ""]
OtherError == [kind |-> "error", status |-> 0, value |-> "timeout"]
MaxRetriesExceeded == [kind |-> "error", status |-> 0, value |-> "Max retries exceeded"]
Statuses == {401, 403, 429, 500}
Outcomes ==
  {Returns(v) : v \in {"r1", "r2"}} \cup {HTTPStatusError(s) : s \in Statuses}
    \cup {OtherError}
Funcs == [1 .. MaxInvocations -> Outcomes]

RetryCallOf(func, configured) ==
  [op |-> "execute_with_retry", func |-> func, configured |-> configured,
   attempt |-> 0]
InvokeEvent(t, n, o) == [ev |-> "invoke", task |-> t, attempt |-> n, out |-> o]
RefreshEvent(t, force, requested, ok) ==
  [ev |-> "refresh", task |-> t, force |-> force, requested |-> requested, ok |-> ok]
Invocations == {k \in DOMAIN log.events : log.events[k].ev = "invoke"}
Refreshes == {k \in DOMAIN log.events : log.events[k].ev = "refresh"}

\* mutant: a refresh and a retry after any HTTP error status
ShouldRefresh_AnyStatus(e, attempt) == attempt < MAX_RETRIES - 1

\* line 129: e.response.status_code == 401 and attempt < self.MAX_RETRIES - 1
ShouldRefresh(e, attempt) == e.status = 401 /\ attempt < MAX_RETRIES - 1

\* `for attempt in range(self.MAX_RETRIES)`: the body runs for attempt, or the
\* loop is over and line 139 raises
LoopAt(attempt) ==
  IF attempt < MAX_RETRIES
  THEN /\ pc' = [pc EXCEPT ![Api] = "func"]
       /\ UNCHANGED result
  ELSE /\ pc' = [pc EXCEPT ![Api] = "raised"]
       /\ result' = [result EXCEPT ![Api] = [status |-> "raised",
                                             error |-> MaxRetriesExceeded]]

\* the caller calls execute_with_retry(func)
RetryCall(func, configured) ==
  /\ pc[Api] = "idle"
  /\ log.events = <<>>
  /\ call' = [call EXCEPT ![Api] = RetryCallOf(func, configured)]
  /\ LoopAt(0)
  /\ UNCHANGED <<agents, subscriptions, agent_capabilities, open, accepted,
                 message_payload, iter, target, sent, fails, acks, agent_id,
                 lastSub, departed, log>>

\* lines 126-137: `await func(...)` ends with its next outcome
FuncDone ==
  /\ pc[Api] = "func"
  /\ Cardinality(Invocations) < MaxInvocations
  /\ LET o == call[Api].func[Cardinality(Invocations) + 1]
         attempt == call[Api].attempt
     IN /\ log' = Logged(<<InvokeEvent(Api, attempt, o)>>)
        /\ IF o.kind = "ok"
           THEN /\ pc' = [pc EXCEPT ![Api] = "returned"]
                /\ result' = [result EXCEPT ![Api] = [status |-> "returned",
                                                      value |-> o.value]]
           ELSE IF o.kind = "http" /\ ShouldRefresh(o, attempt)
           THEN /\ pc' = [pc EXCEPT ![Api] = "refresh"]
                /\ UNCHANGED result
           ELSE /\ pc' = [pc EXCEPT ![Api] = "raised"]
                /\ result' = [result EXCEPT ![Api] = [status |-> "raised",
                                                      error |-> o]]
  /\ UNCHANGED <<agents, subscriptions, agent_capabilities, open, accepted, call,
                 message_payload, iter, target, sent, fails, acks, agent_id,
                 lastSub, departed>>

\* lines 132-134: `await self.get_access_token(force_refresh=True)` returns
\* (None at once when the client is not configured, else the token of a new
\* token request or None when that request failed: lines 59-65, 76-107), and
\* `continue` takes the loop to the next attempt
GetAccessTokenDone(ok) ==
  /\ pc[Api] = "refresh"
  /\ ok => call[Api].configured
  /\ log' = Logged(<<RefreshEvent(Api, TRUE, call[Api].configured, ok)>>)
  /\ call' = [call EXCEPT ![Api].attempt = @ + 1]
  /\ LoopAt(call[Api].attempt + 1)
  /\ UNCHANGED <<agents, subscriptions, agent_capabilities, open, accepted,
                 message_payload, iter, target, sent, fails, acks, agent_id,
                 lastSub, departed>>

RetryInit == InitState /\ log = [on |-> {Api}, events |-> <<>>]

RetryNext ==
  \/ \E func \in Funcs, configured \in BOOLEAN : RetryCall(func, configured)
  \/ FuncDone
  \/ \E ok \in BOOLEAN : GetAccessTokenDone(ok)

RetrySpec == RetryInit /\ [][RetryNext]_vars

\* ------------------------------------------------------------------ claims
\* subscribersOf(topic): the empty set for an unknown topic
SubscribersOf(T) == IF T \in DOMAIN subscriptions THEN subscriptions[T] ELSE {}

\* the agents a publish on T by S has to reach
Recipients(T, S) == {a \in SubscribersOf(T) : a \in DOMAIN agents /\ a # S}

\* the record of one send attempt of envelope e to agent a
Attempt(a, e) == [id |-> a, ws |-> agents[a], env |-> e]

ApiEnded(op) == pc[Api] = "done" /\ call[Api].op = op

\* C1: a publish(T, m, S) that runs alone makes exactly one send attempt, of
\* the envelope {topic T, sender S, data m}, to each registered subscriber of
\* T other than S, and no other send attempt.
C1_PublishFanOut ==
  ApiEnded("publish") =>
    LET cl == call[Api]
    IN sent[Api] =
         SetToBag({Attempt(a, [topic |-> cl.topic, sender |-> cl.sender,
                               data |-> cl.message]) :
                     a \in Recipients(cl.topic, cl.sender)})

\* C1 witness: a publish ended that reached a subscriber and left out a
\* registered agent that is not subscribed
C1_Witness ==
  /\ ApiEnded("publish")
  /\ \E a, b \in DOMAIN agents :
       /\ a \in Recipients(call[Api].topic, call[Api].sender)
       /\ b \notin SubscribersOf(call[Api].topic)
       /\ b # call[Api].sender
       /\ \E e \in BagToSet(sent[Api]) : e.id = a

\* C2: when the publisher S is itself subscribed to T, no send attempt of its
\* publish goes to S or to S's websocket, and every other registered
\* subscriber of T gets one.
C2_NoSelfDelivery ==
  (ApiEnded("publish") /\ call[Api].sender \in SubscribersOf(call[Api].topic)) =>
    LET S == call[Api].sender
        T == call[Api].topic
    IN /\ \A e \in BagToSet(sent[Api]) :
            e.id # S /\ (S \in DOMAIN agents => e.ws # agents[S])
       /\ \A a \in SubscribersOf(T) \cap DOMAIN agents :
            a # S => \E e \in BagToSet(sent[Api]) : e.id = a /\ e.env.sender = S

\* C2 witness: a registered publisher subscribed to the topic it published
\* on, and another subscriber was sent the envelope
C2_Witness ==
  /\ ApiEnded("publish")
  /\ call[Api].sender \in SubscribersOf(call[Api].topic) \cap DOMAIN agents
  /\ sent[Api] # EmptyBag

\* a handler step that takes a control message of kind op from receive_json
Dispatches(c, op) == pc[c] = "recv" /\ call'[c] # call[c] /\ call'[c].op = op

\* C3: a publish on a topic with zero subscribers (never subscribed to, or
\* with an emptied subscriber set) makes no send attempt, leaves the registry,
\* the subscription index and the capability map unchanged and returns without
\* error: the handler goes on to write {status: published, topic}.
C3_EmptyPublish ==
  [][\A c \in Conns :
       /\ (Dispatches(c, "publish") /\ SubscribersOf(call'[c].topic) = {}) =>
            /\ bus' = bus
            /\ sent'[c] = EmptyBag /\ fails'[c] = {}
            /\ IF call'[c].topic \in DOMAIN subscriptions
               THEN pc'[c] = "pub_iter" /\ iter'[c].used = 0
               ELSE /\ pc'[c] = "ack"
                    /\ result'[c] = [status |-> "published", topic |-> call'[c].topic]
       /\ (pc[c] = "pub_iter" /\ call[c].op = "publish" /\ iter[c].used = 0) =>
            /\ bus' = bus
            /\ sent'[c] = EmptyBag /\ fails'[c] = {}
            /\ pc'[c] = "ack"
            /\ result'[c] = [status |-> "published", topic |-> call[c].topic]
    ]_vars

\* C3 witness: a handler is about to acknowledge a publish on a topic whose
\* subscriber set exists and is empty, while another agent is registered
C3_Witness ==
  \E c \in Conns :
    /\ pc[c] = "ack" /\ call[c].op = "publish"
    /\ call[c].topic \in DOMAIN subscriptions
    /\ subscriptions[call[c].topic] = {}
    /\ sent[c] = EmptyBag
    /\ \E a \in DOMAIN agents : a # agent_id[c]

\* the topic of a publish envelope ("" for a direct envelope)
TopicOf(env) == IF "topic" \in DOMAIN env THEN env.topic ELSE ""

\* C4: when unregister(X) has returned, X is in no subscriber set, not in the
\* registry and not in the capability map; and a publish never makes a send
\* attempt to X on a topic X was subscribed to when it was unregistered, as long
\* as X has not been registered and subscribed to it again.
C4_UnregisterRemoves ==
  /\ ApiEnded("unregister") =>
       LET X == call[Api].agent_id
       IN /\ X \notin DOMAIN agents
          /\ X \notin DOMAIN agent_capabilities
          /\ \A T \in DOMAIN subscriptions : X \notin subscriptions[T]
  /\ \A X \in AgentIds : \A e \in BagToSet(sent[Api]) :
       TopicOf(e.env) \in departed[X] => e.id # X

\* C4 witness: a publish ended on a topic that an unregistered agent had been
\* subscribed to, and it reached another subscriber
C4_Witness ==
  /\ ApiEnded("publish")
  /\ sent[Api] # EmptyBag
  /\ \E X \in AgentIds : call[Api].topic \in departed[X] /\ X \notin DOMAIN agents

\* C5, as stated: a is in subscribersOf(T) if and only if a is in the registry
\* and a's latest subscribe or unsubscribe naming T was a subscribe; no
\* subscriber set contains an id that is not in the registry.
C5_SubscribedIffRegistered ==
  \A T \in Topics : \A a \in AgentIds :
    a \in SubscribersOf(T) <=> (a \in DOMAIN agents /\ T \in lastSub[a])

\* C6: with no handler unregistering, once every handler is back in
\* receive_json (or has not started), subscribersOf(T) is exactly the set of
\* agents whose last subscribe or unsubscribe call naming T was a subscribe.
NoneUnregistering ==
  \A c \in Conns : pc[c] \notin {"unreg", "closed"} /\ call[c].op # "unregister"
AllCompleted == \A c \in Conns : pc[c] \in {"idle", "recv"}
C6_NoLostUpdate ==
  (NoneUnregistering /\ AllCompleted) =>
    \A T \in Topics : SubscribersOf(T) = {a \in AgentIds : T \in lastSub[a]}

\* C6 witness: two agents are in their receive loops and the subscriber set
\* of a topic holds just the one of them whose last call for it was a subscribe
C6_Witness ==
  /\ NoneUnregistering /\ AllCompleted
  /\ \E c, d \in Conns : \E T \in Topics :
       /\ pc[c] = "recv" /\ pc[d] = "recv" /\ agent_id[c] # agent_id[d]
       /\ T \in lastSub[agent_id[c]]
       /\ T \in DOMAIN subscriptions /\ T \notin lastSub[agent_id[d]]
       /\ subscriptions[T] = {agent_id[c]}

\* C7: a direct_message to a recipient that is not in the registry makes no
\* send attempt and changes no bus state; the handler writes one error
\* acknowledgement naming the missing recipient, not closing or unregistering
\* anything, and is back in receive_json once that acknowledgement is sent.
C7_RecipientNotFound ==
  [][\A c \in Conns :
       /\ (Dispatches(c, "direct_message") /\ call'[c].recipient \notin DOMAIN agents) =>
            /\ pc'[c] = "errack"
            /\ result'[c] = [status |-> "error",
                             message |-> <<"Recipient agent not found: ",
                                           call'[c].recipient>>]
            /\ sent'[c] = EmptyBag
            /\ bus' = bus /\ open' = open
       /\ (pc[c] = "errack" /\ call[c].op = "direct_message" /\ open[c]
             /\ pc'[c] # "errack") =>
            /\ pc'[c] = "recv"
            /\ bus' = bus /\ open' = open
    ]_vars

\* C7 witness: a registered handler with an open connection is about to write
\* the error acknowledgement for a recipient that is not in the registry
C7_Witness ==
  \E c \in Conns :
    /\ pc[c] = "errack" /\ call[c].op = "direct_message"
    /\ call[c].recipient \notin DOMAIN agents
    /\ open[c]
    /\ agent_id[c] \in DOMAIN agents /\ agents[agent_id[c]] = c

\* C8: a direct_message(S, R, m) to a registered R makes exactly one send
\* attempt, to R's registered websocket, of the envelope {type direct_message,
\* sender S, data m}, which has no topic field.
C8_DirectDelivery ==
  (call[Api].op = "direct_message" /\ pc[Api] \in {"dm_send", "done"}
     /\ call[Api].recipient \in DOMAIN agents) =>
    LET cl == call[Api]
    IN /\ sent[Api] = SetToBag({Attempt(cl.recipient,
                                        [type |-> "direct_message",
                                         sender |-> cl.sender,
                                         data |-> cl.message])})
       /\ BagCardinality(sent[Api]) = 1
       /\ \A e \in BagToSet(sent[Api]) : "topic" \notin DOMAIN e.env

\* C8 witness: a direct message was sent to a registered agent that is
\* subscribed to nothing, while another agent is registered too
C8_Witness ==
  /\ ApiEnded("direct_message")
  /\ result[Api] = Return(NoneVal)
  /\ call[Api].recipient \in DOMAIN agents
  /\ \A T \in Topics : call[Api].recipient \notin SubscribersOf(T)
  /\ \E b \in DOMAIN agents : b # call[Api].recipient

\* K: the registered agents other than Q whose declared capabilities contain c
CapableSet(Q, c) ==
  {a \in DOMAIN agents :
     /\ a # Q
     /\ a \in DOMAIN agent_capabilities
     /\ \E i \in DOMAIN agent_capabilities[a] : agent_capabilities[a][i] = c}

\* C9: when K is not empty, request_collaboration(Q, c, ctx) returns status
\* broadcast_sent with a target list that holds exactly the members of K, once
\* each, and count = |K|; Q is not in the list.
C9_BroadcastTargets ==
  (ApiEnded("request_collaboration")
     /\ CapableSet(call[Api].requester, call[Api].capability) # {}) =>
    LET K == CapableSet(call[Api].requester, call[Api].capability)
    IN /\ result[Api].kind = "return"
       /\ result[Api].value.status = "broadcast_sent"
       /\ result[Api].value.capability = call[Api].capability
       /\ Range(result[Api].value.target_agents) = K
       /\ Len(result[Api].value.target_agents) = Cardinality(K)
       /\ result[Api].value.count = Cardinality(K)
       /\ call[Api].requester \notin Range(result[Api].value.target_agents)

\* C9 witness: the requester itself declares the capability it asked for and
\* another agent declares it too
C9_Witness ==
  /\ ApiEnded("request_collaboration")
  /\ call[Api].requester \in DOMAIN agent_capabilities
  /\ call[Api].capability \in Range(agent_capabilities[call[Api].requester])
  /\ CapableSet(call[Api].requester, call[Api].capability) # {}
  /\ result[Api].kind = "return"

\* C10: when no registered agent other than Q declares c,
\* request_collaboration(Q, c, ctx) returns {status no_capable_agents,
\* capability c, available_agents []} as a normal result at once, makes no
\* send attempt and changes no bus state.
C10_NoCapableAgents ==
  [][(pc[Api] = "idle" /\ call'[Api].op = "request_collaboration"
        /\ CapableSet(call'[Api].requester, call'[Api].capability) = {}) =>
       /\ pc'[Api] = "done"
       /\ result'[Api] = [kind |-> "return",
                          value |-> [status |-> "no_capable_agents",
                                     capability |-> call'[Api].capability,
                                     available_agents |-> <<>>]]
       /\ sent'[Api] = EmptyBag
       /\ bus' = bus
    ]_vars

\* C10 witness: the request returned no_capable_agents although another
\* registered agent is subscribed to collaboration_request
C10_Witness ==
  /\ ApiEnded("request_collaboration")
  /\ result[Api].kind = "return"
  /\ result[Api].value.status = "no_capable_agents"
  /\ sent[Api] = EmptyBag
  /\ \E a \in DOMAIN agents :
       a # call[Api].requester /\ a \in SubscribersOf(COLLAB)

\* a step in which the direct caller makes a call of kind op
ApiCalls(op) == pc[Api] = "idle" /\ call'[Api].op = op

\* C11, as stated: unregister(X) for an X that is not in the registry changes
\* no bus state and sends nothing to any agent.
C11_UnregisterNoOp ==
  [][/\ (ApiCalls("unregister") /\ call'[Api].agent_id \notin DOMAIN agents) =>
          bus' = bus
     /\ (call'[Api].op = "unregister" /\ ~call'[Api].registered) =>
          sent'[Api] = EmptyBag
    ]_vars

\* C12, as stated: a successful register(X, conn, caps) sends agent_connected,
\* carrying X and caps, to every registered subscriber of agent_lifecycle
\* other than X, and makes no send attempt to X or to X's own connection.
C12_ConnectedToOthers ==
  (ApiEnded("register") /\ result[Api].kind = "return") =>
    LET cl == call[Api]
        env == [topic |-> LIFECYCLE, sender |-> SYSTEM,
                data |-> [event |-> "agent_connected", agent_id |-> cl.agent_id,
                          capabilities |-> cl.capabilities]]
    IN /\ \A a \in Recipients(LIFECYCLE, cl.agent_id) :
            CopiesIn(Attempt(a, env), sent[Api]) = 1
       /\ \A e \in BagToSet(sent[Api]) : e.id # cl.agent_id /\ e.ws # cl.ws

\* C13, as stated: register with an empty agent id fails, leaves the
\* registry, the capability map and the subscription index unchanged and
\* broadcasts no agent_connected notification.
C13_EmptyIdRejected ==
  [][(call'[Api].op = "register" /\ call'[Api].agent_id = EMPTY) =>
       /\ bus' = bus
       /\ sent'[Api] = EmptyBag
       /\ pc'[Api] = "done" => result'[Api].kind = "raise"
    ]_vars

\* C14: a publish in which a send failed still makes exactly one send attempt
\* to every registered subscriber other than the sender (the failed send is
\* not repeated, the others are not skipped) and returns normally.
C14_FailureDoesNotAbort ==
  (ApiEnded("publish") /\ fails[Api] # {}) =>
    LET R == Recipients(call[Api].topic, call[Api].sender)
    IN /\ result[Api] = Return(NoneVal)
       /\ \A a \in R : \E e \in BagToSet(sent[Api]) :
            e.id = a /\ CopiesIn(e, sent[Api]) = 1
       /\ BagCardinality(sent[Api]) = Cardinality(R)

\* C14 witness: a publish ended in which the send to one subscriber failed
\* and the send to another one did not
C14_Witness ==
  /\ ApiEnded("publish")
  /\ \E a, b \in Recipients(call[Api].topic, call[Api].sender) :
       /\ agents[a] \in fails[Api]
       /\ agents[b] \notin fails[Api]
       /\ \E e \in BagToSet(sent[Api]) : e.id = b

\* handler c takes a step
Acts(c) ==
  pc'[c] # pc[c] \/ call'[c] # call[c] \/ iter'[c].visited # iter[c].visited

\* C15: no step of a publish, direct_message or request_collaboration call
\* changes the registry, the subscription index or the capability map,
\* whether its sends succeed or fail; an id leaves the registry only in a
\* step of an unregister call for that id.
C15_DeliveryFrame ==
  [][/\ \A c \in Conns :
          (Acts(c) /\ call'[c].op \in {"publish", "direct_message",
                                       "request_collaboration"}) =>
            bus' = bus
     /\ \A a \in DOMAIN agents :
          a \notin DOMAIN agents' =>
            \E c \in Conns : Acts(c) /\ call'[c] = UnregisterCall(a)
    ]_vars

\* C15 witness: a handler is about to acknowledge a publish in which the send
\* to a subscriber failed, and that subscriber is still registered and
\* subscribed
C15_Witness ==
  \E c \in Conns :
    /\ pc[c] = "ack" /\ call[c].op = "publish"
    /\ \E a \in SubscribersOf(call[c].topic) \cap DOMAIN agents :
         agents[a] \in fails[c]

\* C16: when the send of a direct_message fails, direct_message raises: the
\* handler writes an error acknowledgement, never {status: message_sent}, and
\* with its own connection open it is back in receive_json once that
\* acknowledgement is sent.
C16_DirectFailureRaised ==
  [][\A c \in Conns :
       /\ (pc[c] = "dm_send" /\ pc'[c] # "dm_send" /\ fails'[c] # {}) =>
            /\ pc'[c] = "errack"
            /\ result'[c] = [status |-> "error", message |-> <<"send failed">>]
       /\ (call'[c].op = "direct_message" /\ fails'[c] # {}) =>
            result'[c].status # "message_sent"
       /\ (pc[c] = "errack" /\ call[c].op = "direct_message" /\ fails[c] # {}
             /\ open[c] /\ pc'[c] # "errack") =>
            pc'[c] = "recv" /\ bus' = bus
    ]_vars

\* C16 witness: a handler whose own connection is open is about to write the
\* error acknowledgement for a direct message whose send failed
C16_Witness ==
  \E c \in Conns :
    /\ pc[c] = "errack" /\ call[c].op = "direct_message"
    /\ call[c].recipient \in DOMAIN agents
    /\ agents[call[c].recipient] \in fails[c]
    /\ open[c]

\* the control messages a handler dispatches
ControlOps ==
  {"subscribe", "unsubscribe", "publish", "request_collaboration",
   "direct_message", "get_agents", "unknown", "malformed"}

\* C17, as stated: for every control message the handler writes exactly one
\* acknowledgement (never a second one for the same message), and it is back
\* in receive_json only after it has written one.
C17_OneAck ==
  [][\A c \in Conns :
       /\ call'[c].op \in ControlOps =>
            Len(acks'[c]) + (IF pc'[c] \in {"ack", "errack"} THEN 1 ELSE 0) <= 1
       /\ (call[c].op \in ControlOps /\ pc[c] # "recv" /\ pc'[c] = "recv") =>
            pc[c] \in {"ack", "errack"}
    ]_vars

\* C18: a handler calls unregister_agent for its own agent id only from its
\* cleanup path, it makes no second call, and it never ends without having
\* made the call, whether registration failed or the receive loop was left.
C18_UnregisterOnce ==
  [][\A c \in Conns :
       /\ (call'[c].op = "unregister" /\ call[c].op # "unregister") =>
            pc[c] = "unreg" /\ call'[c].agent_id = agent_id[c]
       /\ call[c].op = "unregister" =>
            call'[c] = call[c] /\ pc'[c] \in {"pub_iter", "pub_send", "closed"}
       /\ pc'[c] = "closed" => call'[c].op = "unregister"
       /\ (pc[c] \in {"accept", "recv", "ack", "errack"}
             /\ pc'[c] \notin {"accept", "recv", "ack", "errack", "pub_iter",
                               "pub_send", "dm_send"}) =>
            pc'[c] = "unreg"
    ]_vars

\* C18 witness: one handler has ended after its registration failed, another
\* one after it left its receive loop
C18_Witness ==
  \E c, d \in Conns :
    /\ pc[c] = "closed" /\ ~accepted[c] /\ call[c].op = "unregister"
    /\ pc[d] = "closed" /\ accepted[d] /\ call[d].op = "unregister"

\* no handler other than c is running under c's agent id
RunsAlone(c) ==
  \A d \in Conns \ {c} : pc[d] \notin {"idle", "closed"} => agent_id[d] # agent_id[c]

\* id is in no subscriber set, not in the registry, not in the capability map
Absent(id) ==
  /\ id \notin DOMAIN agents
  /\ id \notin DOMAIN agent_capabilities
  /\ \A T \in DOMAIN subscriptions : id \notin subscriptions[T]

C20_StopsAfterDisconnect ==
  [][\A c \in Conns :
       call[c].op = "disconnect" =>
         /\ pc'[c] # "recv"
         /\ call'[c] # call[c] => call'[c].op = "unregister"
    ]_vars

\* C21: an undecodable message changes no bus state and closes nothing; the
\* handler writes the error acknowledgement 'Invalid JSON' for it and no other
\* acknowledgement, and with its connection open it is back in receive_json
\* once that acknowledgement is sent, with nothing left of the message, the
\* registry, the subscription index and the capability map as they were.
C21_MalformedContinues ==
  [][\A c \in Conns :
       /\ Dispatches(c, "malformed") =>
            /\ pc'[c] = "errack"
            /\ result'[c] = [status |-> "error", message |-> <<"Invalid JSON">>]
            /\ sent'[c] = EmptyBag
            /\ bus' = bus /\ open' = open
       /\ call'[c].op = "malformed" =>
            Len(acks'[c]) + (IF pc'[c] \in {"ack", "errack"} THEN 1 ELSE 0) = 1
       /\ (pc[c] = "errack" /\ call[c].op = "malformed" /\ open[c] /\ Acts(c)) =>
            /\ pc'[c] = "recv" /\ call'[c] = NoCall
            /\ result'[c] = NoResult /\ acks'[c] = <<>>
            /\ bus' = bus /\ open' = open
    ]_vars

\* C21 witness: a registered and subscribed handler whose connection is open
\* is about to write the error acknowledgement for an undecodable message
C21_Witness ==
  \E c \in Conns :
    /\ pc[c] = "errack" /\ call[c].op = "malformed"
    /\ open[c]
    /\ agent_id[c] \in DOMAIN agents /\ agents[agent_id[c]] = c
    /\ \E T \in Topics : agent_id[c] \in SubscribersOf(T)

\* C22: a control message whose action is none of the six, or that has no
\* action, changes no bus state, makes no send to any agent and closes
\* nothing; the handler writes {status: error, message: 'Unknown action:
\* <name>'} for it (<name> is None for a missing action), and with its
\* connection open it is back in receive_json once that is sent.
C22_UnknownAction ==
  [][\A c \in Conns :
       /\ Dispatches(c, "unknown") =>
            /\ IF call'[c].action = <<>> THEN TRUE
               ELSE call'[c].action[1] \notin KnownActions
            /\ pc'[c] = "ack"
            /\ result'[c] =
                 [status |-> "error",
                  message |-> <<"Unknown action: ",
                                IF call'[c].action = <<>> THEN "None"
                                ELSE call'[c].action[1]>>]
            /\ sent'[c] = EmptyBag
            /\ bus' = bus /\ open' = open
       /\ (call[c].op = "unknown" /\ pc[c] \in {"ack", "errack"} /\ Acts(c)) =>
            /\ bus' = bus /\ open' = open
            /\ sent'[c] = EmptyBag
            /\ open[c] => pc'[c] = "recv"
    ]_vars

\* C22 witness: a registered handler with an open connection is about to
\* acknowledge a message without an action, while another agent is
\* registered and subscribed
C22_Witness ==
  \E c \in Conns :
    /\ pc[c] = "ack" /\ call[c].op = "unknown" /\ call[c].action = <<>>
    /\ open[c]
    /\ agent_id[c] \in DOMAIN agents /\ agents[agent_id[c]] = c
    /\ \E a \in DOMAIN agents, T \in Topics :
         a # agent_id[c] /\ a \in SubscribersOf(T)

\* C23, as stated: when register(X, conn2, caps2) succeeds for an X that is
\* already in the registry, X is left in no subscriber set and the capability
\* map holds caps2 for X, or no entry when caps2 is empty or missing.
C23_ReRegistrationFresh ==
  [][(pc[Api] = "accept" /\ call[Api].agent_id \in DOMAIN agents
        /\ accepted' # accepted) =>
       LET X == call[Api].agent_id
           caps2 == call[Api].capabilities
       IN /\ agents'[X] = call[Api].ws
          /\ \A T \in DOMAIN subscriptions' : X \notin subscriptions'[T]
          /\ IF caps2 = <<>> THEN X \notin DOMAIN agent_capabilities'
             ELSE X \in DOMAIN agent_capabilities' /\ agent_capabilities'[X] = caps2
    ]_vars

\* C24: when the handler of connection d registers an id that the registry
\* maps to another connection c, the entry becomes d, no connection is closed
\* and the handler of c is left as it is, still running under that id; every
\* send attempt to an agent goes to the websocket the registry holds for it
\* at that moment, so none goes to c from then on; and no step of a handler
\* or of the bus closes a connection.
C24_DuplicateReplaces ==
  [][/\ \A c, d \in Conns :
          (c # d /\ pc[d] = "accept" /\ ~accepted[d] /\ accepted'[d]
             /\ agent_id[d] \in DOMAIN agents /\ agents[agent_id[d]] = c) =>
            /\ agents'[agent_id[d]] = d
            /\ open' = open
            /\ pc'[c] = pc[c] /\ call'[c] = call[c] /\ agent_id'[c] = agent_id[c]
     /\ \A t \in Conns : \A e \in BagToSet(sent'[t]) :
          CopiesIn(e, sent'[t]) > CopiesIn(e, sent[t]) =>
            e.id \in DOMAIN agents' /\ e.ws = agents'[e.id]
     /\ open' # open => \A t \in Conns : pc'[t] = pc[t] /\ call'[t] = call[t]
    ]_vars

\* C24 witness: the handler of a connection that is open and no longer in the
\* registry sends, under its agent id, a direct message to that id, and the
\* send goes to the connection that replaced it
C24_Witness ==
  \E c, d \in Conns :
    /\ c # d /\ open[c]
    /\ pc[c] = "dm_send" /\ call[c].sender = agent_id[c]
    /\ call[c].recipient = agent_id[c]
    /\ agents[agent_id[c]] = d /\ agent_id[d] = agent_id[c]
    /\ target[c].ws = d

\* subscribersOf(T) in the subscription index subs
SubscribersIn(subs, T) == IF T \in DOMAIN subs THEN subs[T] ELSE {}

\* the subscription index after subscribe(a, [T]) followed by unsubscribe(a, [T])
RoundTrip(a, T) == Unsubscribe(Subscribe(subscriptions, a, <<T>>), a, <<T>>)

\* C25, amended: subscribe(a, topics) returns without error and makes
\* subscribersOf(T) the old set with a added for the topics it names (the old
\* set itself when a was in it), unsubscribe(a, topics) returns without error
\* and makes it the old set without a (the old set itself when a was not in
\* it), creating no topic and deleting none; both leave every other topic,
\* every other agent's membership, the registry and the capability map as
\* they were; and for an a that is not subscribed to T, subscribe(a, [T])
\* followed by unsubscribe(a, [T]) leaves T in place with the subscriber set it
\* had (empty for a topic that was unknown) and every other topic as it was.
C25_SubscribeUnsubscribe ==
  /\ [][/\ ApiCalls("subscribe") =>
            LET a == call'[Api].agent_id
                named == Range(call'[Api].topics)
            IN /\ pc'[Api] = "done" /\ result'[Api] = Return(NoneVal)
               /\ \A T \in Topics :
                    SubscribersIn(subscriptions', T) =
                      IF T \in named THEN SubscribersOf(T) \cup {a}
                      ELSE SubscribersOf(T)
               /\ DOMAIN subscriptions' = DOMAIN subscriptions \cup named
               /\ agents' = agents /\ agent_capabilities' = agent_capabilities
               /\ sent'[Api] = EmptyBag
        /\ ApiCalls("unsubscribe") =>
            LET a == call'[Api].agent_id
                named == Range(call'[Api].topics)
            IN /\ pc'[Api] = "done" /\ result'[Api] = Return(NoneVal)
               /\ \A T \in Topics :
                    SubscribersIn(subscriptions', T) =
                      IF T \in named THEN SubscribersOf(T) \ {a}
                      ELSE SubscribersOf(T)
               /\ DOMAIN subscriptions' = DOMAIN subscriptions
               /\ (\A T \in named : a \notin SubscribersOf(T)) =>
                    subscriptions' = subscriptions
               /\ agents' = agents /\ agent_capabilities' = agent_capabilities
               /\ sent'[Api] = EmptyBag
       ]_vars
  /\ [](\A a \in AgentIds, T \in Topics :
          a \notin SubscribersOf(T) =>
            /\ DOMAIN RoundTrip(a, T) = DOMAIN subscriptions \cup {T}
            /\ RoundTrip(a, T)[T] = SubscribersOf(T)
            /\ \A U \in DOMAIN subscriptions \ {T} :
                 RoundTrip(a, T)[U] = subscriptions[U])

\* C25 witness: an unsubscribe has returned that left a topic it named in
\* place with no subscriber, while another agent is subscribed to another
\* topic and stayed so
C25_Witness ==
  /\ ApiEnded("unsubscribe")
  /\ result[Api] = Return(NoneVal)
  /\ \E T \in Range(call[Api].topics) :
       /\ T \in DOMAIN subscriptions /\ subscriptions[T] = {}
       /\ T \in departed[call[Api].agent_id] \/ call[Api].agent_id \in DOMAIN agents
  /\ \E U \in Topics \ Range(call[Api].topics) :
       \E b \in SubscribersOf(U) : b # call[Api].agent_id

\* C25, as stated: subscribe(a, [T]) followed by unsubscribe(a, [T]) restores
\* subscribersOf(T), for every agent a and topic T.
C25_RoundTripRestores ==
  \A a \in AgentIds, T \in Topics :
    SubscribersIn(RoundTrip(a, T), T) = SubscribersOf(T)

\* the connections that are live: accepted, their handler not ended
LiveConns == {c \in Conns : accepted[c] /\ pc[c] \notin {"idle", "closed"}}

\* the capability maps register_agent can build: a non-empty list for some ids
DeclaredCaps == UNION {[D -> CapLists \ {<<>>}] : D \in SUBSET AgentIds}

\* C26: get_agents changes no bus state, closes nothing and sends nothing to
\* an agent; the list it returns has exactly one entry per id that is in the
\* registry at the call, paired with the id's entry in the capability map, the
\* empty list when it has none; and at all times every registry entry is the
\* connection of a live handler running under that id, so the registry never
\* has more entries than there are live connections; get_connected_agents
\* pairs the ids of the registry in the same way with any capability map
\* that registrations with capabilities can build.
C26_AgentsSnapshot ==
  /\ [][\A c \in Conns :
          /\ Dispatches(c, "get_agents") =>
               LET r == result'[c]
               IN /\ pc'[c] = "ack" /\ r.status = "ok"
                  /\ Len(r.agents) = Cardinality(DOMAIN agents)
                  /\ {r.agents[i].agent_id : i \in DOMAIN r.agents} = DOMAIN agents
                  /\ \A i \in DOMAIN r.agents :
                       r.agents[i].capabilities =
                         IF r.agents[i].agent_id \in DOMAIN agent_capabilities
                         THEN agent_capabilities[r.agents[i].agent_id]
                         ELSE <<>>
                  /\ Len(r.agents) <= Cardinality(LiveConns)
                  /\ bus' = bus /\ open' = open /\ sent'[c] = EmptyBag
          /\ (call[c].op = "get_agents" /\ pc[c] \in {"ack", "errack"} /\ Acts(c)) =>
               bus' = bus /\ open' = open
       ]_vars
  /\ [](/\ \A a \in DOMAIN agents : agents[a] \in LiveConns /\ agent_id[agents[a]] = a
        /\ Cardinality(DOMAIN agents) <= Cardinality(LiveConns)
        /\ \A caps \in DeclaredCaps :
             LET r == ConnectedAgents(agents, caps)
             IN /\ Len(r) = Cardinality(DOMAIN agents)
                /\ \A a \in DOMAIN agents : \E i \in DOMAIN r :
                     r[i] = [agent_id |-> a,
                             capabilities |-> IF a \in DOMAIN caps THEN caps[a]
                                              ELSE <<>>])

\* C26 witness: a handler is about to acknowledge get_agents with a list of
\* two agents, itself and another one
C26_Witness ==
  \E c \in Conns :
    /\ pc[c] = "ack" /\ call[c].op = "get_agents"
    /\ Len(result[c].agents) = 2
    /\ \E i, j \in 1..2 :
         /\ result[c].agents[i].agent_id = agent_id[c]
         /\ result[c].agents[j].agent_id # agent_id[c]
         /\ result[c].agents[j].capabilities = <<>>

\* C27, as stated: a publish made by a handler, with subscribe, unsubscribe
\* and unregister calls of other handlers running between its sends, ends by
\* returning, not by raising because the subscriber set changed under its
\* loop, and it has then made a send attempt of its envelope to every agent
\* other than the sender that has been registered and subscribed to the topic
\* ever since the publish began.
C27_NoMissedSubscriber ==
  [][\A c \in Conns :
       (call[c].op = "publish" /\ pc[c] = "pub_iter"
          /\ pc'[c] \notin {"pub_iter", "pub_send"}) =>
         /\ pc'[c] = "ack"
         /\ \A a \in iter[c].stayed \ {call[c].sender} :
              \E e \in BagToSet(sent'[c]) : e.id = a /\ e.env = message_payload[c]
    ]_vars

\* C28, as stated, on a transport on which the send to a subscriber A need
\* not ever complete: a publish that is awaiting its send to A still gets to
\* attempt the send to every other registered subscriber B, and the
\* publisher's handler still gets to write its acknowledgement and to be back
\* in receive_json for its next message.
C28_SlowSubscriberDoesNotBlock ==
  \A c \in Conns :
    /\ (pc[c] = "pub_send" /\ call[c].op = "publish") ~> (pc[c] \in {"ack", "recv"})
    /\ \A b \in AgentIds :
         (/\ pc[c] = "pub_send" /\ call[c].op = "publish"
          /\ target[c].id # b
          /\ b \in Recipients(call[c].topic, call[c].sender)) ~>
           (\/ \E e \in BagToSet(sent[c]) : e.id = b
            \/ ~(/\ call[c].op = "publish"
                 /\ b \in Recipients(call[c].topic, call[c].sender)))

\* C29: every send attempt a publish makes goes to an id that is in the
\* registry in the step that makes it, and to the websocket the registry
\* holds for it then; a subscriber the loop reaches while it is not in the
\* registry is passed over without an attempt and without an error, whatever
\* unregister, register and subscribe calls ran while the publish was
\* suspended in its earlier sends.
C29_SendTimeRegistry ==
  [][\A t \in Tasks :
       /\ \A e \in BagToSet(sent'[t]) :
            (CopiesIn(e, sent'[t]) > CopiesIn(e, sent[t]) /\ "topic" \in DOMAIN e.env) =>
              /\ e.id \in DOMAIN agents /\ e.ws = agents[e.id]
              /\ agents' = agents
              /\ pc[t] = "pub_iter" /\ pc'[t] = "pub_send" /\ target'[t].ws = e.ws
       /\ \A a \in AgentIds :
            (pc[t] = "pub_iter" /\ a \in iter'[t].visited \ iter[t].visited
               /\ a \notin DOMAIN agents) =>
              sent'[t] = sent[t] /\ pc'[t] = "pub_iter" /\ fails'[t] = fails[t]
    ]_vars

\* C29 witness: a publish that has made a send, and was suspended in it, has
\* then passed over a subscriber that is not in the registry and that was
\* unregistered while subscribed to the topic
C29_Witness ==
  \E t \in Tasks :
    /\ pc[t] = "pub_iter" /\ sent[t] # EmptyBag
    /\ \E a \in iter[t].visited :
         /\ a \notin DOMAIN agents /\ a # message_payload[t].sender
         /\ a \in subscriptions[iter[t].topic]
         /\ iter[t].topic \in departed[a]
         /\ \A e \in BagToSet(sent[t]) : e.id # a

\* the envelope request_collaboration publishes for the call cl
CollabEnvelope(cl) ==
  [topic |-> COLLAB, sender |-> cl.requester,
   data |-> CollabPayload(cl.capability, cl.context, cl.requester,
                          cl.capable_agents)]

\* C30: a request_collaboration that found capable agents delivers its
\* envelope as a publish on collaboration_request does: one send attempt to
\* each registered subscriber of that topic other than the requester, target
\* or not, and no other; a target that is not subscribed gets none; and the
\* summary is broadcast_sent with the targets, however many attempts were made.
C30_CollabByPublish ==
  (ApiEnded("request_collaboration") /\ call[Api].capable_agents # <<>>) =>
    LET cl == call[Api]
    IN /\ sent[Api] =
            SetToBag({Attempt(a, CollabEnvelope(cl)) :
                        a \in Recipients(COLLAB, cl.requester)})
       /\ \A a \in Range(cl.capable_agents) \ SubscribersOf(COLLAB) :
            \A e \in BagToSet(sent[Api]) : e.id # a
       /\ result[Api] = Return(BroadcastSummary(cl.capability, cl.capable_agents))

\* C30 witness: the request went to a subscriber that is not a target, while
\* a target that is not subscribed got nothing
C30_Witness ==
  /\ ApiEnded("request_collaboration")
  /\ result[Api].kind = "return"
  /\ result[Api].value.status = "broadcast_sent"
  /\ \E a \in Range(call[Api].capable_agents) :
       a \notin SubscribersOf(COLLAB) /\ \A e \in BagToSet(sent[Api]) : e.id # a
  /\ \E b \in Recipients(COLLAB, call[Api].requester) :
       /\ b \notin Range(call[Api].capable_agents)
       /\ \E e \in BagToSet(sent[Api]) : e.id = b

\* broadcast_sent although no envelope was sent to anyone
C30_ZeroDelivered ==
  /\ ApiEnded("request_collaboration")
  /\ result[Api].kind = "return"
  /\ result[Api].value.status = "broadcast_sent"
  /\ sent[Api] = EmptyBag

\* C31: subscribe(a, topics) for an id a that is not in the registry returns
\* normally and a is then a subscriber of each of the topics; a publish on T
\* makes no send attempt to a subscriber that is not in the registry, and makes
\* one to each registered subscriber other than the sender, although none of
\* them has subscribed since it registered.
C31_SubscribeBeforeRegister ==
  /\ ApiEnded("subscribe") =>
       /\ call[Api].agent_id \notin DOMAIN agents
       /\ result[Api] = Return(NoneVal)
       /\ \A T \in Range(call[Api].topics) : call[Api].agent_id \in SubscribersOf(T)
  /\ ApiEnded("publish") =>
       \A a \in SubscribersOf(call[Api].topic) :
         IF a \in DOMAIN agents /\ a # call[Api].sender
         THEN CopiesIn(Attempt(a, PubEnvelope(call[Api].topic, call[Api].sender,
                                              call[Api].message)), sent[Api]) = 1
         ELSE \A e \in BagToSet(sent[Api]) : e.id # a

\* C31 witness: a publish ended that reached an agent which subscribed before
\* it registered, and passed over a subscriber that has not registered
C31_Witness ==
  /\ ApiEnded("publish")
  /\ \E a \in Recipients(call[Api].topic, call[Api].sender) :
       \E e \in BagToSet(sent[Api]) : e.id = a
  /\ \E b \in SubscribersOf(call[Api].topic) :
       b \notin DOMAIN agents /\ \A e \in BagToSet(sent[Api]) : e.id # b

\* events of the history: handler c took the publish of message m from its
\* connection; a send of an envelope carrying m, made by c's publish, ended;
\* an acknowledgement of c was written to its connection
TookPublish(i, c, m) ==
  /\ log.events[i].ev = "call" /\ log.events[i].task = c
  /\ log.events[i].call.op = "publish" /\ log.events[i].call.message = m
SentOf(i, c, m) ==
  /\ log.events[i].ev = "send" /\ log.events[i].task = c
  /\ "topic" \in DOMAIN log.events[i].env /\ log.events[i].env.data = m
Acked(i, c) ==
  /\ log.events[i].ev = "ack" /\ log.events[i].task = c /\ log.events[i].ok

\* C32: a handler processes the messages of its connection one at a time, in
\* the order they arrive: when S publishes M1 and then M2, every send of M1's
\* envelope ends before M2 is taken from the connection, every send of M2's
\* envelope comes after, and between the two an acknowledgement (published,
\* or the error of a publish that raised) is written to S.
C32_PerSenderOrder ==
  \A c \in Conns :
    /\ \A i, j \in DOMAIN log.events :
         (i < j /\ TookPublish(i, c, M1) /\ TookPublish(j, c, M2)) =>
           \E k \in DOMAIN log.events :
             /\ i < k /\ k < j /\ Acked(k, c)
             /\ log.events[k].ack.status \in {"published", "error"}
             /\ log.events[k].ack.status = "published" =>
                  log.events[k].ack.topic = log.events[i].call.topic
    /\ \A k \in DOMAIN log.events :
         SentOf(k, c, M1) =>
           /\ \E i \in 1..(k - 1) : TookPublish(i, c, M1)
           /\ \A j \in 1..(k - 1) : ~TookPublish(j, c, M2)
    /\ \A k \in DOMAIN log.events :
         SentOf(k, c, M2) => \E j \in 1..(k - 1) : TookPublish(j, c, M2)

\* C32 witness: the same connection was sent M1's envelope, then the
\* publisher its acknowledgement, then the connection M2's envelope
C32_Witness ==
  \E a, b, d \in DOMAIN log.events :
    /\ a < b /\ b < d
    /\ SentOf(a, Publisher, M1) /\ log.events[a].ok
    /\ Acked(b, Publisher) /\ log.events[b].ack.status = "published"
    /\ SentOf(d, Publisher, M2) /\ log.events[d].ok
    /\ log.events[a].to = log.events[d].to

\* handler c is in its receive loop: in receive_json, or processing a message
\* it received
InLoop(c) ==
  \/ pc[c] \in {"recv", "ack", "errack"}
  \/ pc[c] \in {"pub_iter", "pub_send", "dm_send"}
       /\ call[c].op \notin {"register", "unregister"}

\* C33: when no two running handlers use the same agent id, every handler in
\* its receive loop has its agent id in the registry, mapped to its own
\* connection, and every id in a subscriber set is in the registry.
C33_HandlersConsistent ==
  /\ \A c \in Conns :
       InLoop(c) => agent_id[c] \in DOMAIN agents /\ agents[agent_id[c]] = c
  /\ \A T \in DOMAIN subscriptions : subscriptions[T] \subseteq DOMAIN agents

\* C33 witness: a handler is in receive_json, registered and subscribed, and
\* an agent that was subscribed when its handler unregistered it is in no
\* subscriber set and not in the registry
C33_Witness ==
  \E c \in Conns, b \in AgentIds :
    /\ pc[c] = "recv" /\ agents[agent_id[c]] = c
    /\ \E T \in DOMAIN subscriptions : agent_id[c] \in subscriptions[T]
    /\ b # agent_id[c] /\ departed[b] # {} /\ b \notin DOMAIN agents
    /\ \A T \in DOMAIN subscriptions : b \notin subscriptions[T]

\* C34: once receive_json has reported the disconnect of a handler's
\* connection, the handler writes no acknowledgement to that connection: it
\* is never about to send one for the disconnect.
C34_NoWriteAfterDisconnect ==
  \A c \in Conns : call[c].op = "disconnect" => pc[c] \notin {"ack", "errack"}

\* the acknowledgement of a collaboration request for capability cap that
\* found no capable agent
NoCapableAck(cap) ==
  [status |-> "collaboration_requested", result |-> NoCapableSummary(cap)]

\* C35: when every agent connects through the handler, the capability map is
\* empty in every state; every request_collaboration message makes no send
\* attempt, and the acknowledgement written for it carries the result
\* no_capable_agents.
C35_NoCapabilitiesViaHandler ==
  /\ agent_capabilities = EmptyDict
  /\ \A c \in Conns :
       call[c].op = "request_collaboration" =>
         /\ sent[c] = EmptyBag
         /\ call[c].capable_agents = <<>>
         /\ pc[c] \in {"ack", "errack", "unreg"}
         /\ pc[c] = "ack" => result[c] = NoCapableAck(call[c].capability)
         /\ pc[c] # "ack" =>
              /\ acks[c] # <<>>
              /\ acks[c][1] = [ack |-> NoCapableAck(call[c].capability), ok |-> FALSE]

\* C35 witness: a collaboration request is about to be acknowledged with
\* no_capable_agents while another registered agent is subscribed to
\* collaboration_request
C35_Witness ==
  \E c \in Conns :
    /\ pc[c] = "ack" /\ call[c].op = "request_collaboration"
    /\ result[c] = NoCapableAck(call[c].capability)
    /\ \E a \in DOMAIN agents :
         a # agent_id[c] /\ a \in SubscribersOf(COLLAB) /\ open[agents[a]]

\* C36: every envelope a handler sends for a publish, request_collaboration
\* or direct_message message names as sender (and, in a collaboration
\* request, as requester) the agent id the handler was started for, whatever
\* sender the message itself names, and carries the message body as given;
\* the envelopes of register_agent and unregister_agent name 'system'.
C36_SenderAuthentic ==
  \A c \in Conns :
    \A e \in BagToSet(sent[c]) :
      CASE call[c].op \in {"register", "unregister"} -> e.env.sender = SYSTEM
        [] call[c].op \in {"publish", "direct_message"} ->
             e.env.sender = agent_id[c] /\ e.env.data = call[c].message
        [] call[c].op = "request_collaboration" ->
             /\ e.env.sender = agent_id[c]
             /\ e.env.data.requester = agent_id[c]
             /\ e.env.data.context = call[c].context
        [] OTHER -> FALSE

\* C36 witness: a publish message that names another sender was delivered
\* with the handler's agent id as sender
C36_Witness ==
  \E c \in Conns :
    /\ call[c].op = "publish" /\ call[c].message.sender # agent_id[c]
    /\ \E e \in BagToSet(sent[c]) : e.env.sender = agent_id[c]

\* a collaboration request whose message names another requester was delivered
C36_CollabDelivered ==
  \E c \in Conns :
    /\ call[c].op = "request_collaboration" /\ call[c].context.sender # agent_id[c]
    /\ \E e \in BagToSet(sent[c]) : e.env.data.requester = agent_id[c]

\* the sends of handler c that ended since it took its latest message
EndedSends(c) ==
  {k \in DOMAIN log.events :
     /\ log.events[k].ev = "send" /\ log.events[k].task = c
     /\ \A i \in DOMAIN log.events :
          (log.events[i].ev = "call" /\ log.events[i].task = c) => i < k}

\* C37: when the handler is about to write {status published}, every send
\* attempt of that publish has ended, normally or with an error, and none is
\* pending; when it is about to write {status message_sent}, the one send of
\* the direct message has ended without an error; and in the history each
\* message_sent acknowledgement directly follows that successful send.
C37_AckAfterOperation ==
  LET c == Publisher
  IN /\ (pc[c] = "ack" /\ call[c].op = "publish") =>
          /\ result[c].status = "published"
          /\ Cardinality(EndedSends(c)) = BagCardinality(sent[c])
          /\ \A k \in EndedSends(c) :
               \E e \in BagToSet(sent[c]) :
                 e.ws = log.events[k].to /\ e.env = log.events[k].env
          /\ target[c] = NoTarget
     /\ (pc[c] = "ack" /\ call[c].op = "direct_message") =>
          /\ result[c].status = "message_sent"
          /\ Cardinality(EndedSends(c)) = 1 /\ BagCardinality(sent[c]) = 1
          /\ \A k \in EndedSends(c) : log.events[k].ok
          /\ target[c] = NoTarget
     /\ \A k \in DOMAIN log.events :
          (log.events[k].ev = "ack" /\ log.events[k].ack.status = "message_sent") =>
            /\ k > 1
            /\ log.events[k - 1].ev = "send" /\ log.events[k - 1].ok
            /\ log.events[k - 1].env = DirectEnvelope(agent_id[c], M1)

\* C37 witness: {status published} is about to be written after a send
\* attempt of the publish ended with an error
C37_Witness ==
  /\ pc[Publisher] = "ack" /\ call[Publisher].op = "publish"
  /\ result[Publisher].status = "published"
  /\ \E k \in EndedSends(Publisher) : ~log.events[k].ok

C38_RetrySucceeds ==
  /\ call[Api].op = "execute_with_retry"
  /\ pc[Api] = "returned"
  /\ Cardinality(Invocations) = 2

\* C39: in every reachable state each id of the capability map is an id of
\* the registry.
C39_CapabilitiesOfRegistered ==
  DOMAIN agent_capabilities \subseteq DOMAIN agents

\* C39 witness: a registered agent has just been unregistered, its publish of
\* agent_disconnected is under way or over, and another agent still has
\* capabilities
C39_Witness ==
  /\ call[Api].op = "unregister" /\ call[Api].registered
  /\ call[Api].agent_id \notin DOMAIN agents
  /\ agent_capabilities # EmptyDict

\* C39: a registered agent without capabilities beside one with capabilities
C39_ProperSubset ==
  /\ agent_capabilities # EmptyDict
  /\ DOMAIN agents \ DOMAIN agent_capabilities # {}

====
